---- MODULE Spec2Model ----
(***************************************************************************)
(* Model of function-azresourcegraph (fn.go): the path parser, the tree    *)
(* accessors, the observed/desired status reconciliation, the two skip     *)
(* gates, the round-robin credential selection and RunFunction itself.     *)
(*                                                                         *)
(* Strings are sequences of one-character strings, so that prefixes can be *)
(* tested and paths parsed character by character.  A JSON-like value is a *)
(* tagged record: [t |-> "null"], [t |-> "bool", v |-> b],                 *)
(* [t |-> "num", v |-> n], [t |-> "str", v |-> s], [t |-> "list", v |-> l] *)
(* and [t |-> "map", v |-> f] with f a function from keys to values.       *)
(***************************************************************************)
EXTENDS Integers, Sequences, FiniteSets, TLC

(***************************************************************************)
(* Strings                                                                 *)
(***************************************************************************)
StatusPrefix == <<"s", "t", "a", "t", "u", "s", ".">>

ContextPrefix == <<"c", "o", "n", "t", "e", "x", "t", ".">>

LastQueryTimeKey == <<"l", "a", "s", "t", "Q", "u", "e", "r", "y", "T", "i", "m", "e">>

SubscriptionIdKey == <<"s", "u", "b", "s", "c", "r", "i", "p", "t", "i", "o", "n", "I", "d">>

HasPrefix(s, p) == Len(s) >= Len(p) /\ SubSeq(s, 1, Len(p)) = p

TrimPrefix(s, p) == IF HasPrefix(s, p) THEN SubSeq(s, Len(p) + 1, Len(s)) ELSE s

\* optional (pointer) fields: None is nil, Some(x) points at x
None == <<>>

Some(x) == <<x>>

(***************************************************************************)
(* Values                                                                  *)
(***************************************************************************)
Null == [t |-> "null"]

Bool(b) == [t |-> "bool", v |-> b]

Num(n) == [t |-> "num", v |-> n]

Str(s) == [t |-> "str", v |-> s]

List(l) == [t |-> "list", v |-> l]

Map(m) == [t |-> "map", v |-> m]

EmptyMap == Map(<<>>)

\* m with m[k] = val, every other key kept
Put(m, k, val) == [x \in (DOMAIN m) \cup {k} |-> IF x = k THEN val ELSE m[x]]

\* the one-key map
Single(k, val) == Put(<<>>, k, val)

(***************************************************************************)
(* ParseNestedKey: all non-overlapping leftmost matches of the regular     *)
(* expression \[([^\[\]]+)\]|([^.\[\]]+), the bracket alternative first.   *)
(***************************************************************************)
BracketChars == {"[", "]"}

BareStop == {".", "[", "]"}

\* the end of the longest run key[i..j] holding no character of Stop; i-1 when empty
RunEnd(key, i, Stop) ==
    LET ends == {j \in (i - 1)..Len(key) : \A k \in i..j : key[k] \notin Stop}
    IN  CHOOSE j \in ends : \A k \in ends : k <= j

\* a variant without the bracket alternative: every run free of dots and
\* brackets is a match
RECURSIVE FindAllSubmatchBare(_, _)
FindAllSubmatchBare(key, i) ==
    IF i > Len(key) THEN <<>>
    ELSE LET de == RunEnd(key, i, BareStop)
         IN  IF de >= i
             THEN <<SubSeq(key, i, de)>> \o FindAllSubmatchBare(key, de + 1)
             ELSE FindAllSubmatchBare(key, i + 1)

RECURSIVE FindAllSubmatch(_, _)
FindAllSubmatch(key, i) ==
    IF i > Len(key) THEN <<>>
    ELSE LET be == RunEnd(key, i + 1, BracketChars)
             bracket == /\ key[i] = "["
                        /\ be >= i + 1
                        /\ be < Len(key)
                        /\ key[be + 1] = "]"
             de == RunEnd(key, i, BareStop)
         IN  IF bracket
             THEN <<SubSeq(key, i + 1, be)>> \o FindAllSubmatch(key, be + 2)
             ELSE IF de >= i
                  THEN <<SubSeq(key, i, de)>> \o FindAllSubmatch(key, de + 1)
                  ELSE FindAllSubmatch(key, i + 1)

ParseNestedKey(key) ==
    LET parts == FindAllSubmatch(key, 1)
    IN  [err |-> Len(parts) = 0, parts |-> parts]

(***************************************************************************)
(* Tree accessors                                                          *)
(***************************************************************************)
\* the descent loop shared by GetNestedKey, targetHasData and getTargetData
RECURSIVE Walk(_, _, _)
Walk(cur, parts, i) ==
    IF i > Len(parts) THEN [ok |-> TRUE, why |-> "", val |-> cur]
    ELSE IF cur.t = "map"
         THEN IF parts[i] \in DOMAIN cur.v
              THEN Walk(cur.v[parts[i]], parts, i + 1)
              ELSE [ok |-> FALSE, why |-> "no existing data", val |-> Null]
         ELSE [ok |-> FALSE, why |-> "invalid nested structure", val |-> Null]

\* GetNestedKey: the string at key, ok only when the path leads to a string
GetNestedKey(context, key) ==
    LET p == ParseNestedKey(key)
        w == Walk(Map(context), p.parts, 1)
    IN  IF p.err THEN [ok |-> FALSE, val |-> <<>>]
        ELSE IF w.ok /\ w.val.t = "str" THEN [ok |-> TRUE, val |-> w.val.v]
        ELSE [ok |-> FALSE, val |-> <<>>]

\* a variant that keeps what is stored at the final key
RECURSIVE SetAtKeepingStored(_, _, _, _)
SetAtKeepingStored(current, parts, i, value) ==
    IF i = Len(parts)
    THEN [err |-> FALSE,
          root |-> IF parts[i] \in DOMAIN current THEN current
                   ELSE Put(current, parts[i], value)]
    ELSE IF parts[i] \in DOMAIN current
         THEN IF current[parts[i]].t = "map"
              THEN LET r == SetAtKeepingStored(current[parts[i]].v, parts, i + 1, value)
                   IN  [err |-> r.err, root |-> Put(current, parts[i], Map(r.root))]
              ELSE [err |-> TRUE, root |-> current]
         ELSE LET r == SetAtKeepingStored(<<>>, parts, i + 1, value)
              IN  [err |-> r.err, root |-> Put(current, parts[i], Map(r.root))]

\* a variant that puts a new map in the place of a value that is no map
RECURSIVE SetAtReplacingScalars(_, _, _, _)
SetAtReplacingScalars(current, parts, i, value) ==
    IF i = Len(parts) THEN [err |-> FALSE, root |-> Put(current, parts[i], value)]
    ELSE LET below == IF parts[i] \in DOMAIN current /\ current[parts[i]].t = "map"
                      THEN current[parts[i]].v ELSE <<>>
             r == SetAtReplacingScalars(below, parts, i + 1, value)
         IN  [err |-> r.err, root |-> Put(current, parts[i], Map(r.root))]

\* SetNestedKey mutates root in place: root is the map after the call, also
\* when the call fails
RECURSIVE SetAt(_, _, _, _)
SetAt(current, parts, i, value) ==
    IF i = Len(parts) THEN [err |-> FALSE, root |-> Put(current, parts[i], value)]
    ELSE IF parts[i] \in DOMAIN current
         THEN IF current[parts[i]].t = "map"
              THEN LET r == SetAt(current[parts[i]].v, parts, i + 1, value)
                   IN  [err |-> r.err, root |-> Put(current, parts[i], Map(r.root))]
              ELSE [err |-> TRUE, root |-> current]
         ELSE LET r == SetAt(<<>>, parts, i + 1, value)
              IN  [err |-> r.err, root |-> Put(current, parts[i], Map(r.root))]

\* a variant that builds the path in a fresh map instead of in root
SetNestedKeyInFreshMap(root, key, value) ==
    LET p == ParseNestedKey(key)
    IN  IF p.err THEN [err |-> TRUE, root |-> root]
        ELSE SetAt(<<>>, p.parts, 1, value)

SetNestedKey(root, key, value) ==
    LET p == ParseNestedKey(key)
    IN  IF p.err THEN [err |-> TRUE, root |-> root]
        ELSE SetAt(root, p.parts, 1, value)

\* a variant that takes the number zero and the boolean false for no data
targetHasDataTruthy(data, key) ==
    LET p == ParseNestedKey(key)
        w == Walk(Map(data), p.parts, 1)
    IN  IF p.err THEN FALSE
        ELSE IF ~w.ok THEN FALSE
        ELSE IF w.val.t = "null" THEN FALSE
        ELSE IF w.val.t = "map" THEN DOMAIN w.val.v # {}
        ELSE IF w.val.t = "list" THEN Len(w.val.v) > 0
        ELSE IF w.val.t = "str" THEN Len(w.val.v) > 0
        ELSE IF w.val.t = "num" THEN w.val.v # 0
        ELSE w.val.v

\* targetHasData: whether data holds a non-empty value at key
targetHasData(data, key) ==
    LET p == ParseNestedKey(key)
        w == Walk(Map(data), p.parts, 1)
    IN  IF p.err THEN FALSE
        ELSE IF ~w.ok THEN FALSE
        ELSE IF w.val.t = "null" THEN FALSE
        ELSE IF w.val.t = "map" THEN DOMAIN w.val.v # {}
        ELSE IF w.val.t = "list" THEN Len(w.val.v) > 0
        ELSE IF w.val.t = "str" THEN Len(w.val.v) > 0
        ELSE TRUE

(***************************************************************************)
(* Time.  The clock counts ticks; time.Now().Format(time.RFC3339) keeps    *)
(* whole seconds only, and a timestamp string is modelled as the decimal   *)
(* digits of the seconds followed by "Z".                                  *)
(***************************************************************************)
TicksPerSecond == 2

SecondsPerMinute == 60

MinuteTicks == SecondsPerMinute * TicksPerSecond

DigitChars == <<"0", "1", "2", "3", "4", "5", "6", "7", "8", "9">>

IsDigit(c) == \E d \in 1..10 : DigitChars[d] = c

DigitValue(c) == (CHOOSE d \in 1..10 : DigitChars[d] = c) - 1

RECURSIVE Decimal(_)
Decimal(n) ==
    IF n < 10 THEN <<DigitChars[n + 1]>>
    ELSE Decimal(n \div 10) \o <<DigitChars[(n % 10) + 1]>>

RECURSIVE FromDecimal(_)
FromDecimal(s) ==
    IF Len(s) = 0 THEN 0
    ELSE 10 * FromDecimal(SubSeq(s, 1, Len(s) - 1)) + DigitValue(s[Len(s)])

\* time.Now().Format(time.RFC3339) at clock value t
FormatRFC3339(t) == Decimal(t \div TicksPerSecond) \o <<"Z">>

\* time.Parse(time.RFC3339, s)
ParseRFC3339(s) ==
    IF /\ Len(s) >= 2
       /\ s[Len(s)] = "Z"
       /\ \A i \in 1..(Len(s) - 1) : IsDigit(s[i])
    THEN [err |-> FALSE, time |-> FromDecimal(SubSeq(s, 1, Len(s) - 1)) * TicksPerSecond]
    ELSE [err |-> TRUE, time |-> 0]

(***************************************************************************)
(* servicePrincipalCounter is a uint64: four 16-bit limbs, least           *)
(* significant first.                                                      *)
(***************************************************************************)
LimbBase == 65536

CounterLimbs == 4

Uint64Zero == [i \in 1..CounterLimbs |-> 0]

Uint64Max == [i \in 1..CounterLimbs |-> LimbBase - 1]

RECURSIVE AddCarry(_, _)
AddCarry(c, i) ==
    IF i > Len(c) THEN c
    ELSE IF c[i] + 1 < LimbBase THEN [c EXCEPT ![i] = c[i] + 1]
    ELSE AddCarry([c EXCEPT ![i] = 0], i + 1)

\* atomic.AddUint64(&c, 1): the new value, wrapping at 2^64
AddUint64(c) == AddCarry(c, 1)

RECURSIVE ModFrom(_, _, _, _)
ModFrom(c, n, i, r) ==
    IF i = 0 THEN r ELSE ModFrom(c, n, i - 1, (r * LimbBase + c[i]) % n)

\* c % uint64(n)
Uint64Mod(c, n) == ModFrom(c, n, Len(c), 0)

(***************************************************************************)
(* Composite resources and the working status                              *)
(***************************************************************************)
Absent == [t |-> "absent"]

NoComposite == [apiVersion |-> "", kind |-> "", name |-> "", status |-> Absent]

\* GetValueInto("status", &xrStatus): the map read, or xrStatus as it was
StatusInto(xr, xrStatus) == IF xr.status.t = "map" THEN xr.status.v ELSE xrStatus

getXRAndStatus(r) ==
    LET oxr == r.observed
        dxr == IF r.desired.kind = ""
               THEN [r.desired EXCEPT !.apiVersion = oxr.apiVersion,
                                      !.kind = oxr.kind,
                                      !.name = oxr.name]
               ELSE r.desired
        fromDesired == IF dxr.kind # "" THEN StatusInto(dxr, <<>>) ELSE <<>>
    IN  IF DOMAIN fromDesired # {}
        THEN [xrStatus |-> fromDesired, dxr |-> dxr]
        ELSE [xrStatus |-> StatusInto(oxr, fromDesired), dxr |-> dxr]

\* req.GetContext().AsMap(): a nil context reads as the empty map
AsMap(c) == IF c.t = "map" THEN c.v ELSE <<>>

(***************************************************************************)
(* The response                                                            *)
(***************************************************************************)
Result(severity, msg, arg) == [severity |-> severity, msg |-> msg, arg |-> arg]

Condition(type, status, reason) == [type |-> type, status |-> status, reason |-> reason]

Fatal(r, msg, arg) == [r EXCEPT !.results = Append(@, Result("Fatal", msg, arg))]

Warning(r, msg) == [r EXCEPT !.results = Append(@, Result("Warning", msg, <<>>))]

Normal(r, msg, arg) == [r EXCEPT !.results = Append(@, Result("Normal", msg, arg))]

WithCondition(r, c) == [r EXCEPT !.conditions = Append(@, c)]

FunctionSuccessTrue == Condition("FunctionSuccess", "True", "Success")

FunctionSuccessFalse == Condition("FunctionSuccess", "False", "InternalError")

FunctionSkip(reason) == Condition("FunctionSkip", "True", reason)

\* response.To(req, ttl)
ResponseTo(r) ==
    [desired |-> r.desired, context |-> r.context, results |-> <<>>, conditions |-> <<>>]

\* a variant that hands on the desired composite without the working status
propagateDesiredXRWithoutStatus(r, resp) ==
    [resp EXCEPT !.desired = getXRAndStatus(r).dxr]

\* propagateDesiredXR followed by preserveContext
propagateDesiredXR(r, resp) ==
    LET g == getXRAndStatus(r)
        dxr == IF DOMAIN g.xrStatus # {}
               THEN [g.dxr EXCEPT !.status = Map(g.xrStatus)]
               ELSE g.dxr
    IN  [resp EXCEPT !.desired = dxr]

preserveContext(r, resp) ==
    IF r.context.t # "null" THEN [resp EXCEPT !.context = r.context] ELSE resp

(***************************************************************************)
(* Credentials                                                             *)
(***************************************************************************)
Malformed == [t |-> "malformed"]

NilCreds == [mode |-> "nil", v |-> <<>>]

IsStringMap(j) == j.t = "map" /\ \A k \in DOMAIN j.v : j.v[k].t = "str"

StringMapOf(j) == [k \in DOMAIN j.v |-> j.v[k].v]

\* json.Unmarshal(credsJSON, &servicePrincipals) into []map[string]string
UnmarshalServicePrincipals(j) ==
    IF j.t = "list" /\ \A i \in 1..Len(j.v) : IsStringMap(j.v[i])
    THEN [err |-> FALSE, v |-> [i \in 1..Len(j.v) |-> StringMapOf(j.v[i])]]
    ELSE IF j.t = "null" THEN [err |-> FALSE, v |-> <<>>]
    ELSE [err |-> TRUE, v |-> <<>>]

\* json.Unmarshal(credsJSON, &singleCred) into map[string]string
UnmarshalSingleCred(j) ==
    IF IsStringMap(j) THEN [err |-> FALSE, v |-> StringMapOf(j)]
    ELSE IF j.t = "null" THEN [err |-> FALSE, v |-> <<>>]
    ELSE [err |-> TRUE, v |-> <<>>]

getCreds(r) ==
    IF ~r.creds.present
    THEN [err |-> "failed to get azure-creds credentials", creds |-> NilCreds]
    ELSE IF ~r.creds.hasKey THEN [err |-> "", creds |-> NilCreds]
    ELSE LET sps == UnmarshalServicePrincipals(r.creds.json)
             single == UnmarshalSingleCred(r.creds.json)
         IN  IF ~sps.err /\ Len(sps.v) > 0
             THEN [err |-> "", creds |-> [mode |-> "multi", v |-> sps.v]]
             ELSE IF single.err
                  THEN [err |-> "cannot parse json credentials", creds |-> NilCreds]
                  ELSE [err |-> "", creds |-> [mode |-> "single", v |-> single.v]]

\* the subscriptionId of one credential set, when present and non-empty
HasSubscriptionId(cred) ==
    SubscriptionIdKey \in DOMAIN cred /\ Len(cred[SubscriptionIdKey]) > 0

RECURSIVE SubscriptionIdsFrom(_, _)
SubscriptionIdsFrom(v, i) ==
    IF i > Len(v) THEN <<>>
    ELSE (IF HasSubscriptionId(v[i]) THEN <<v[i][SubscriptionIdKey]>> ELSE <<>>)
         \o SubscriptionIdsFrom(v, i + 1)

\* the index picked for the counter value that AddUint64 returned
RoundRobinIndex(counter, n) == Uint64Mod(counter, n)

\* a variant that advances the counter for a single credential set as well
selectCredentialsAlwaysCounting(creds, counter) ==
    IF creds.mode = "single"
    THEN [err |-> "", counter |-> AddUint64(counter), index |-> 0, multi |-> FALSE,
          allSubscriptionIDs |-> SubscriptionIdsFrom(<<creds.v>>, 1)]
    ELSE IF creds.mode = "multi"
    THEN IF Len(creds.v) = 0
         THEN [err |-> "no Azure credentials provided", counter |-> counter,
               index |-> 0, multi |-> TRUE, allSubscriptionIDs |-> <<>>]
         ELSE [err |-> "", counter |-> AddUint64(counter),
               index |-> RoundRobinIndex(AddUint64(counter), Len(creds.v)),
               multi |-> TRUE,
               allSubscriptionIDs |-> SubscriptionIdsFrom(creds.v, 1)]
    ELSE [err |-> "invalid credential format", counter |-> counter, index |-> 0,
          multi |-> FALSE, allSubscriptionIDs |-> <<>>]

\* azQuery up to the choice of the credential set: the counter after the call,
\* the index selected and the subscription ids of all credential sets
selectCredentials(creds, counter) ==
    IF creds.mode = "single"
    THEN [err |-> "", counter |-> counter, index |-> 0, multi |-> FALSE,
          allSubscriptionIDs |-> SubscriptionIdsFrom(<<creds.v>>, 1)]
    ELSE IF creds.mode = "multi"
    THEN IF Len(creds.v) = 0
         THEN [err |-> "no Azure credentials provided", counter |-> counter,
               index |-> 0, multi |-> TRUE, allSubscriptionIDs |-> <<>>]
         ELSE [err |-> "", counter |-> AddUint64(counter),
               index |-> RoundRobinIndex(AddUint64(counter), Len(creds.v)),
               multi |-> TRUE,
               allSubscriptionIDs |-> SubscriptionIdsFrom(creds.v, 1)]
    ELSE [err |-> "invalid credential format", counter |-> counter, index |-> 0,
          multi |-> FALSE, allSubscriptionIDs |-> <<>>]

\* a variant in which the credentials' ids win over the input's list
subscriptionScopeCredentialsFirst(input, allSubscriptionIDs) ==
    IF Len(allSubscriptionIDs) > 0
    THEN [i \in 1..Len(allSubscriptionIDs) |-> Some(allSubscriptionIDs[i])]
    ELSE input.subscriptions

\* queryRequest.Subscriptions: the input's list, else the credentials' ids, else none
subscriptionScope(input, allSubscriptionIDs) ==
    IF Len(input.subscriptions) > 0 THEN input.subscriptions
    ELSE IF Len(allSubscriptionIDs) > 0
         THEN [i \in 1..Len(allSubscriptionIDs) |-> Some(allSubscriptionIDs[i])]
         ELSE <<>>

(***************************************************************************)
(* Reference resolution                                                    *)
(***************************************************************************)
\* the path syntax of fieldpath.Pave(..).GetValue for bracket-free paths
RECURSIVE SplitDots(_, _)
SplitDots(path, i) ==
    IF i > Len(path) THEN <<>>
    ELSE LET e == RunEnd(path, i, {"."})
         IN  <<SubSeq(path, i, e)>> \o SplitDots(path, e + 2)

PavedGetValue(m, path) ==
    LET w == Walk(Map(m), SplitDots(path, 1), 1)
    IN  IF Len(path) = 0 THEN [err |-> TRUE, val |-> Null]
        ELSE [err |-> ~w.ok, val |-> w.val]

\* in.Subscriptions after a successful GetValue: one pointer per element, nil
\* where the element is no string
SubscriptionsFromValue(input, got) ==
    IF ~got.err /\ got.val.t # "null" /\ got.val.t = "list"
    THEN [input EXCEPT !.subscriptions =
            [i \in 1..Len(got.val.v) |->
                IF got.val.v[i].t = "str" THEN Some(got.val.v[i].v) ELSE None]]
    ELSE input

\* a variant that takes whatever GetNestedKey returns, found or not
resolveQueryUnconditionally(r, input) ==
    IF input.queryRef = None THEN [err |-> "", input |-> input]
    ELSE IF HasPrefix(input.queryRef[1], StatusPrefix)
    THEN [err |-> "",
          input |-> [input EXCEPT !.query =
                        GetNestedKey(getXRAndStatus(r).xrStatus,
                                     TrimPrefix(input.queryRef[1], StatusPrefix)).val]]
    ELSE IF HasPrefix(input.queryRef[1], ContextPrefix)
    THEN [err |-> "",
          input |-> [input EXCEPT !.query =
                        GetNestedKey(AsMap(r.context),
                                     TrimPrefix(input.queryRef[1], ContextPrefix)).val]]
    ELSE [err |-> "Unrecognized QueryRef field", input |-> input]

\* resolveQuery: the input after resolution and the fatal message, if any
resolveQuery(r, input) ==
    IF input.queryRef = None THEN [err |-> "", input |-> input]
    ELSE IF HasPrefix(input.queryRef[1], StatusPrefix)
    THEN LET q == GetNestedKey(getXRAndStatus(r).xrStatus,
                               TrimPrefix(input.queryRef[1], StatusPrefix))
         IN  [err |-> "", input |-> IF q.ok THEN [input EXCEPT !.query = q.val] ELSE input]
    ELSE IF HasPrefix(input.queryRef[1], ContextPrefix)
    THEN LET q == GetNestedKey(AsMap(r.context),
                               TrimPrefix(input.queryRef[1], ContextPrefix))
         IN  [err |-> "", input |-> IF q.ok THEN [input EXCEPT !.query = q.val] ELSE input]
    ELSE [err |-> "Unrecognized QueryRef field", input |-> input]

\* a variant that leaves a reference of unknown prefix unresolved
resolveSubscriptionsLenient(r, input) ==
    IF input.subscriptionsRef = None THEN [err |-> "", input |-> input]
    ELSE IF HasPrefix(input.subscriptionsRef[1], StatusPrefix)
    THEN [err |-> "",
          input |-> SubscriptionsFromValue(input,
                        PavedGetValue(getXRAndStatus(r).xrStatus,
                                      TrimPrefix(input.subscriptionsRef[1], StatusPrefix)))]
    ELSE IF HasPrefix(input.subscriptionsRef[1], ContextPrefix)
    THEN [err |-> "",
          input |-> SubscriptionsFromValue(input,
                        PavedGetValue(AsMap(r.context),
                                      TrimPrefix(input.subscriptionsRef[1], ContextPrefix)))]
    ELSE [err |-> "", input |-> input]

resolveSubscriptions(r, input) ==
    IF input.subscriptionsRef = None THEN [err |-> "", input |-> input]
    ELSE IF HasPrefix(input.subscriptionsRef[1], StatusPrefix)
    THEN [err |-> "",
          input |-> SubscriptionsFromValue(input,
                        PavedGetValue(getXRAndStatus(r).xrStatus,
                                      TrimPrefix(input.subscriptionsRef[1], StatusPrefix)))]
    ELSE IF HasPrefix(input.subscriptionsRef[1], ContextPrefix)
    THEN [err |-> "",
          input |-> SubscriptionsFromValue(input,
                        PavedGetValue(AsMap(r.context),
                                      TrimPrefix(input.subscriptionsRef[1], ContextPrefix)))]
    ELSE [err |-> "Unrecognized SubscriptionsRef field", input |-> input]

\* a variant that accepts every target
isValidTargetAlways(target) == TRUE

isValidTarget(target) == HasPrefix(target, StatusPrefix) \/ HasPrefix(target, ContextPrefix)

(***************************************************************************)
(* The skip gates                                                          *)
(***************************************************************************)
getTargetData(r, input) ==
    LET p == ParseNestedKey(TrimPrefix(input.target, StatusPrefix))
        w == Walk(Map(getXRAndStatus(r).xrStatus), p.parts, 1)
    IN  IF p.err THEN [err |-> TRUE, val |-> Null] ELSE [err |-> ~w.ok, val |-> w.val]

\* the last element that is a map holding a string lastQueryTime decides
RECURSIVE extractLastQueryTimeFromArray(_, _)
extractLastQueryTimeFromArray(dataArray, i) ==
    IF i < 1 THEN [err |-> TRUE, time |-> 0]
    ELSE IF /\ dataArray[i].t = "map"
            /\ LastQueryTimeKey \in DOMAIN dataArray[i].v
            /\ dataArray[i].v[LastQueryTimeKey].t = "str"
         THEN ParseRFC3339(dataArray[i].v[LastQueryTimeKey].v)
         ELSE extractLastQueryTimeFromArray(dataArray, i - 1)

extractLastQueryTimeFromMap(dataMap) ==
    IF LastQueryTimeKey \notin DOMAIN dataMap THEN [err |-> TRUE, time |-> 0]
    ELSE IF dataMap[LastQueryTimeKey].t # "str" THEN [err |-> TRUE, time |-> 0]
    ELSE ParseRFC3339(dataMap[LastQueryTimeKey].v)

extractLastQueryTime(targetData) ==
    IF targetData.t = "list"
    THEN extractLastQueryTimeFromArray(targetData.v, Len(targetData.v))
    ELSE IF targetData.t = "map" THEN extractLastQueryTimeFromMap(targetData.v)
    ELSE [err |-> TRUE, time |-> 0]

(***************************************************************************)
(* time.Duration is an int64 count of nanoseconds: CounterLimbs limbs in   *)
(* two's complement.  Numbers too large for one limb are sequences of      *)
(* limbs, least significant first.                                         *)
(***************************************************************************)
RECURSIVE NatLimbs(_)
NatLimbs(n) == IF n = 0 THEN <<>> ELSE <<n % LimbBase>> \o NatLimbs(n \div LimbBase)

\* a * k + carry, for k below half a limb
RECURSIVE MulLimbs(_, _, _)
MulLimbs(a, k, carry) ==
    IF Len(a) = 0 THEN NatLimbs(carry)
    ELSE <<(Head(a) * k + carry) % LimbBase>>
            \o MulLimbs(Tail(a), k, (Head(a) * k + carry) \div LimbBase)

Thousand == 1000

\* a * time.Second, a second being 10^9 nanoseconds
TimesSecond(a) == MulLimbs(MulLimbs(MulLimbs(a, Thousand, 0), Thousand, 0), Thousand, 0)

\* the low 64 bits
Truncate64(a) == [i \in 1..CounterLimbs |-> IF i <= Len(a) THEN a[i] ELSE 0]

IsNegative64(d) == d[CounterLimbs] >= LimbBase \div 2

Negate64(d) == AddUint64([i \in 1..CounterLimbs |-> LimbBase - 1 - d[i]])

\* time.Duration(intervalMinutes) * time.Minute, wrapping as int64 does
DurationOfMinutes(intervalMinutes) ==
    IF intervalMinutes < 0
    THEN Negate64(Truncate64(TimesSecond(
            MulLimbs(NatLimbs(0 - intervalMinutes), SecondsPerMinute, 0))))
    ELSE Truncate64(TimesSecond(MulLimbs(NatLimbs(intervalMinutes), SecondsPerMinute, 0)))

LimbAt(a, i) == IF i <= Len(a) THEN a[i] ELSE 0

\* a < b for limb sequences, decided from limb i downwards
RECURSIVE LessFrom(_, _, _)
LessFrom(a, b, i) ==
    IF i = 0 THEN FALSE
    ELSE IF LimbAt(a, i) # LimbAt(b, i) THEN LimbAt(a, i) < LimbAt(b, i)
    ELSE LessFrom(a, b, i - 1)

LessLimbs(a, b) == LessFrom(a, b, IF Len(a) > Len(b) THEN Len(a) ELSE Len(b))

\* whether elapsed < intervalDuration at clock value t: the elapsed ticks
\* and the int64 duration are compared as exact numbers, both scaled by
\* TicksPerSecond
checkIntervalLimit(lastQueryTime, intervalMinutes, t) ==
    LET d == DurationOfMinutes(intervalMinutes)
        e == t - lastQueryTime
        since == TimesSecond(NatLimbs(IF e < 0 THEN 0 - e ELSE e))
        interval == MulLimbs(IF IsNegative64(d) THEN Negate64(d) ELSE d, TicksPerSecond, 0)
    IN  IF IsNegative64(d) THEN e < 0 /\ LessLimbs(interval, since)
        ELSE e < 0 \/ LessLimbs(since, interval)

shouldSkipQueryDueToInterval(r, input, t) ==
    IF input.queryIntervalMinutes = None THEN FALSE
    ELSE IF input.queryIntervalMinutes[1] <= 0 THEN FALSE
    ELSE IF ~HasPrefix(input.target, StatusPrefix) THEN FALSE
    ELSE LET targetData == getTargetData(r, input)
             lastQueryTime == extractLastQueryTime(targetData.val)
         IN  IF targetData.err THEN FALSE
             ELSE IF lastQueryTime.err THEN FALSE
             ELSE checkIntervalLimit(lastQueryTime.time, input.queryIntervalMinutes[1], t)

\* a variant that reads the observed composite's status only
checkStatusTargetHasDataObserved(r, input) ==
    targetHasData(StatusInto(r.observed, <<>>), TrimPrefix(input.target, StatusPrefix))

checkStatusTargetHasData(r, input) ==
    targetHasData(getXRAndStatus(r).xrStatus, TrimPrefix(input.target, StatusPrefix))

checkContextTargetHasData(r, input) ==
    targetHasData(AsMap(r.context), TrimPrefix(input.target, ContextPrefix))

\* shouldSkipQuery: whether a gate fired, and the reason of its FunctionSkip condition
shouldSkipQuery(r, input, t) ==
    IF shouldSkipQueryDueToInterval(r, input, t)
    THEN [skip |-> TRUE, reason |-> "IntervalLimit"]
    ELSE IF ~(input.skipQueryWhenTargetHasData # None /\ input.skipQueryWhenTargetHasData[1])
    THEN [skip |-> FALSE, reason |-> ""]
    ELSE IF HasPrefix(input.target, StatusPrefix)
    THEN [skip |-> checkStatusTargetHasData(r, input), reason |-> "SkippedQuery"]
    ELSE IF HasPrefix(input.target, ContextPrefix)
    THEN [skip |-> checkContextTargetHasData(r, input), reason |-> "SkippedQuery"]
    ELSE [skip |-> FALSE, reason |-> ""]

(***************************************************************************)
(* Writing the result                                                      *)
(***************************************************************************)
\* a variant that stamps whenever an interval is given, positive or not
withLastQueryTimeWheneverGiven(input, data, t) ==
    IF input.queryIntervalMinutes # None
    THEN IF data.t = "list"
         THEN List(Append(data.v, Map(Single(LastQueryTimeKey, Str(FormatRFC3339(t))))))
         ELSE IF data.t = "map"
              THEN Map(Put(data.v, LastQueryTimeKey, Str(FormatRFC3339(t))))
              ELSE data
    ELSE data

\* the result data with the lastQueryTime marker of clock value t, if one is due
withLastQueryTime(input, data, t) ==
    IF input.queryIntervalMinutes # None /\ input.queryIntervalMinutes[1] > 0
    THEN IF data.t = "list"
         THEN List(Append(data.v, Map(Single(LastQueryTimeKey, Str(FormatRFC3339(t))))))
         ELSE IF data.t = "map"
              THEN Map(Put(data.v, LastQueryTimeKey, Str(FormatRFC3339(t))))
              ELSE data
    ELSE data
\* a variant that appends the answer to the list the target already holds
putQueryResultToStatusOntoStored(r, resp, input, data, t) ==
    LET g == getXRAndStatus(r)
        stored == getTargetData(r, input)
        all == IF ~stored.err /\ stored.val.t = "list" /\ data.t = "list"
               THEN List(stored.val.v \o data.v)
               ELSE data
        set == SetNestedKey(g.xrStatus, TrimPrefix(input.target, StatusPrefix),
                            withLastQueryTime(input, all, t))
    IN  IF set.err THEN [err |-> "cannot set status field", rsp |-> resp]
        ELSE [err |-> "",
              rsp |-> [resp EXCEPT !.desired = [g.dxr EXCEPT !.status = Map(set.root)]]]


putQueryResultToStatus(r, resp, input, data, t) ==
    LET g == getXRAndStatus(r)
        set == SetNestedKey(g.xrStatus, TrimPrefix(input.target, StatusPrefix),
                            withLastQueryTime(input, data, t))
    IN  IF set.err THEN [err |-> "cannot set status field", rsp |-> resp]
        ELSE [err |-> "",
              rsp |-> [resp EXCEPT !.desired = [g.dxr EXCEPT !.status = Map(set.root)]]]

\* a variant that writes into an empty context instead of the inbound one
putQueryResultToEmptyContext(r, resp, input, data) ==
    LET set == SetNestedKey(<<>>, TrimPrefix(input.target, ContextPrefix), data)
    IN  IF set.err THEN [err |-> "failed to update context key", rsp |-> resp]
        ELSE [err |-> "", rsp |-> [resp EXCEPT !.context = Map(set.root)]]

putQueryResultToContext(r, resp, input, data) ==
    LET set == SetNestedKey(AsMap(r.context), TrimPrefix(input.target, ContextPrefix), data)
    IN  IF set.err THEN [err |-> "failed to update context key", rsp |-> resp]
        ELSE [err |-> "", rsp |-> [resp EXCEPT !.context = Map(set.root)]]

\* a variant that records the failure to write but does not report it
processResultsSwallowingError(r, resp, input, data, t) ==
    LET put == IF HasPrefix(input.target, StatusPrefix)
               THEN putQueryResultToStatus(r, resp, input, data, t)
               ELSE IF HasPrefix(input.target, ContextPrefix)
               THEN putQueryResultToContext(r, resp, input, data)
               ELSE [err |-> "Unrecognized target field", rsp |-> resp]
    IN  IF put.err # "" THEN [err |-> "", rsp |-> Fatal(put.rsp, put.err, input.target)]
        ELSE put

processResults(r, resp, input, data, t) ==
    LET put == IF HasPrefix(input.target, StatusPrefix)
               THEN putQueryResultToStatus(r, resp, input, data, t)
               ELSE IF HasPrefix(input.target, ContextPrefix)
               THEN putQueryResultToContext(r, resp, input, data)
               ELSE [err |-> "Unrecognized target field", rsp |-> resp]
    IN  IF put.err # "" THEN [err |-> put.err, rsp |-> Fatal(put.rsp, put.err, input.target)]
        ELSE put

(***************************************************************************)
(* State.  servicePrincipalCounter is the package-level counter and now    *)
(* the wall clock; the other variables are the frame of the invocation of  *)
(* RunFunction in progress: the request, the parsed input as resolved so   *)
(* far, the credentials, the response under construction, the data the     *)
(* remote query returned, the remote calls made (query, subscription scope *)
(* and credential index of each) and the position in RunFunction.          *)
(* counterAtStart records the counter as the invocation found it and       *)
(* selections the round-robin picks made since the start of the run, each  *)
(* with the number of credential sets it chose among.  call holds a        *)
(* function of the package applied on its own, and queryTimes the clock    *)
(* values at which the remote query has answered since the last request    *)
(* that was no reconciliation of the one before.                           *)
(***************************************************************************)
VARIABLES servicePrincipalCounter, now, req, in, azureCreds, rsp, results,
          remoteCalls, counterAtStart, selections, pc, azureQuery, invocations,
          call, queryTimes

vars == <<servicePrincipalCounter, now, req, in, azureCreds, rsp, results,
          remoteCalls, counterAtStart, selections, pc, azureQuery, invocations,
          call, queryTimes>>

ZeroInput ==
    [query |-> <<>>, queryRef |-> None, subscriptions |-> <<>>,
     subscriptionsRef |-> None, target |-> <<>>,
     skipQueryWhenTargetHasData |-> None, queryIntervalMinutes |-> None]

NoCreds == [present |-> FALSE, hasKey |-> FALSE, json |-> Null]

NoRequest ==
    [inputOK |-> FALSE, input |-> ZeroInput, creds |-> NoCreds,
     observed |-> NoComposite, desired |-> NoComposite, context |-> Null]

NoResponse ==
    [desired |-> NoComposite, context |-> Null, results |-> <<>>, conditions |-> <<>>]

\* the number of invocations in progress at once
MaxInvocations == 3

\* the frame of one of several invocations in progress at once: its position,
\* the number of its credential sets, what it read of f.azureQuery and the
\* counter value and index that its selection returned
IdleInvocation == [pc |-> "idle", n |-> 0, seen |-> "", value |-> <<>>, index |-> 0]

\* no function of the package is being applied on its own
NoCall == [op |-> "none"]

InitAt(counter) ==
    /\ servicePrincipalCounter = counter
    /\ now = 0
    /\ req = NoRequest
    /\ in = ZeroInput
    /\ azureCreds = NilCreds
    /\ rsp = NoResponse
    /\ results = Null
    /\ remoteCalls = <<>>
    /\ counterAtStart = counter
    /\ selections = <<>>
    /\ pc = "idle"
    /\ azureQuery = "nil"
    /\ invocations = [k \in 1..MaxInvocations |-> IdleInvocation]
    /\ call = NoCall
    /\ queryTimes = <<>>

\* a request arrives at clock value t: rsp := response.To(req, response.DefaultTTL)
Receive(r, t) ==
    /\ pc = "idle"
    /\ t >= now
    /\ now' = t
    /\ req' = r
    /\ in' = ZeroInput
    /\ azureCreds' = NilCreds
    /\ rsp' = ResponseTo(r)
    /\ results' = Null
    /\ remoteCalls' = <<>>
    /\ counterAtStart' = servicePrincipalCounter
    /\ pc' = "propagateDesiredXR"
    /\ queryTimes' = <<>>
    /\ UNCHANGED <<servicePrincipalCounter, selections>>
    /\ UNCHANGED <<azureQuery, invocations, call>>

\* fn.go:50-55
PropagateDesiredXR ==
    /\ pc = "propagateDesiredXR"
    /\ rsp' = preserveContext(req, propagateDesiredXR(req, rsp))
    /\ pc' = "parseInputAndCredentials"
    /\ UNCHANGED <<servicePrincipalCounter, now, req, in, azureCreds, results,
                   remoteCalls, counterAtStart, selections>>
    /\ UNCHANGED <<azureQuery, invocations, call, queryTimes>>

\* fn.go:57-61 with parseInputAndCredentials
ParseInputAndCredentials ==
    /\ pc = "parseInputAndCredentials"
    /\ LET c == getCreds(req)
       IN  IF ~req.inputOK
           THEN /\ rsp' = Fatal(Warning(WithCondition(rsp, FunctionSuccessFalse),
                                        "something went wrong"),
                                "cannot get Function input", <<>>)
                /\ pc' = "done"
                /\ UNCHANGED <<in, azureCreds, azureQuery>>
           ELSE IF c.err # ""
           THEN /\ rsp' = Fatal(rsp, c.err, <<>>)
                /\ pc' = "done"
                /\ UNCHANGED <<in, azureCreds, azureQuery>>
           ELSE IF c.creds.mode \notin {"single", "multi"}
           THEN /\ pc' = "done"
                /\ UNCHANGED <<in, azureCreds, rsp, azureQuery>>
           ELSE /\ in' = req.input
                /\ azureCreds' = c.creds
                /\ azureQuery' = IF azureQuery = "nil" THEN "AzureQuery" ELSE azureQuery
                /\ pc' = "resolveQuery"
                /\ UNCHANGED rsp
    /\ UNCHANGED <<servicePrincipalCounter, now, req, results, remoteCalls,
                   counterAtStart, selections>>
    /\ UNCHANGED <<invocations, call, queryTimes>>

\* fn.go:63-66
ResolveQuery ==
    /\ pc = "resolveQuery"
    /\ LET q == resolveQuery(req, in)
       IN  IF q.err # ""
           THEN /\ rsp' = Fatal(rsp, q.err, in.queryRef[1])
                /\ pc' = "done"
                /\ UNCHANGED in
           ELSE /\ in' = q.input
                /\ pc' = "resolveSubscriptions"
                /\ UNCHANGED rsp
    /\ UNCHANGED <<servicePrincipalCounter, now, req, azureCreds, results,
                   remoteCalls, counterAtStart, selections>>
    /\ UNCHANGED <<azureQuery, invocations, call, queryTimes>>

\* fn.go:68-71
ResolveSubscriptions ==
    /\ pc = "resolveSubscriptions"
    /\ LET q == resolveSubscriptions(req, in)
       IN  IF q.err # ""
           THEN /\ rsp' = Fatal(rsp, q.err, in.subscriptionsRef[1])
                /\ pc' = "done"
                /\ UNCHANGED in
           ELSE /\ in' = q.input
                /\ pc' = "checkQuery"
                /\ UNCHANGED rsp
    /\ UNCHANGED <<servicePrincipalCounter, now, req, azureCreds, results,
                   remoteCalls, counterAtStart, selections>>
    /\ UNCHANGED <<azureQuery, invocations, call, queryTimes>>

\* a variant that goes on to the target check with an empty query
CheckQueryLettingEmptyPass ==
    /\ pc = "checkQuery"
    /\ pc' = "checkTarget"
    /\ UNCHANGED <<servicePrincipalCounter, now, req, in, azureCreds, rsp, results,
                   remoteCalls, counterAtStart, selections>>
    /\ UNCHANGED <<azureQuery, invocations, call, queryTimes>>

\* fn.go:73-78
CheckQuery ==
    /\ pc = "checkQuery"
    /\ IF Len(in.query) = 0
       THEN rsp' = Warning(rsp, "Query is empty") /\ pc' = "done"
       ELSE pc' = "checkTarget" /\ UNCHANGED rsp
    /\ UNCHANGED <<servicePrincipalCounter, now, req, in, azureCreds, results,
                   remoteCalls, counterAtStart, selections>>
    /\ UNCHANGED <<azureQuery, invocations, call, queryTimes>>

\* fn.go:80-84
CheckTarget ==
    /\ pc = "checkTarget"
    /\ IF ~isValidTarget(in.target)
       THEN rsp' = Fatal(rsp, "Unrecognized target field", in.target) /\ pc' = "done"
       ELSE pc' = "shouldSkipQuery" /\ UNCHANGED rsp
    /\ UNCHANGED <<servicePrincipalCounter, now, req, in, azureCreds, results,
                   remoteCalls, counterAtStart, selections>>
    /\ UNCHANGED <<azureQuery, invocations, call, queryTimes>>

\* a variant that leaves out the FunctionSuccess condition of a skip
ShouldSkipQueryWithoutSuccess ==
    /\ pc = "shouldSkipQuery"
    /\ LET g == shouldSkipQuery(req, in, now)
       IN  IF g.skip
           THEN /\ rsp' = WithCondition(rsp, FunctionSkip(g.reason))
                /\ pc' = "done"
           ELSE pc' = "executeQuery" /\ UNCHANGED rsp
    /\ UNCHANGED <<servicePrincipalCounter, now, req, in, azureCreds, results,
                   remoteCalls, counterAtStart, selections>>
    /\ UNCHANGED <<azureQuery, invocations, call, queryTimes>>

\* a variant that records the skip and goes on to the query all the same
ShouldSkipQueryAndGoOn ==
    /\ pc = "shouldSkipQuery"
    /\ LET g == shouldSkipQuery(req, in, now)
       IN  IF g.skip
           THEN rsp' = WithCondition(rsp, FunctionSkip(g.reason))
           ELSE UNCHANGED rsp
    /\ pc' = "executeQuery"
    /\ UNCHANGED <<servicePrincipalCounter, now, req, in, azureCreds, results,
                   remoteCalls, counterAtStart, selections>>
    /\ UNCHANGED <<azureQuery, invocations, call, queryTimes>>

\* fn.go:86-92: the gates read the clock
ShouldSkipQuery ==
    /\ pc = "shouldSkipQuery"
    /\ LET g == shouldSkipQuery(req, in, now)
       IN  IF g.skip
           THEN /\ rsp' = WithCondition(WithCondition(rsp, FunctionSkip(g.reason)),
                                        FunctionSuccessTrue)
                /\ pc' = "done"
           ELSE pc' = "executeQuery" /\ UNCHANGED rsp
    /\ UNCHANGED <<servicePrincipalCounter, now, req, in, azureCreds, results,
                   remoteCalls, counterAtStart, selections>>
    /\ UNCHANGED <<azureQuery, invocations, call, queryTimes>>

\* a variant that treats a failed remote call as an empty answer
ExecuteQueryIgnoringFailure(remoteErr, data, d) ==
    /\ pc = "executeQuery"
    /\ LET sel == selectCredentials(azureCreds, servicePrincipalCounter)
       IN  /\ servicePrincipalCounter' = sel.counter
           /\ selections' =
                IF sel.multi /\ sel.err = ""
                THEN Append(selections, [n |-> Len(azureCreds.v), index |-> sel.index])
                ELSE selections
           /\ IF sel.err # ""
              THEN /\ rsp' = Fatal(rsp, sel.err, <<>>)
                   /\ pc' = "done"
                   /\ UNCHANGED <<results, remoteCalls, now, queryTimes>>
              ELSE /\ remoteCalls' =
                        Append(remoteCalls,
                               [query |-> in.query,
                                subscriptions |->
                                    subscriptionScope(in, sel.allSubscriptionIDs),
                                multi |-> sel.multi,
                                index |-> sel.index,
                                err |-> remoteErr])
                   /\ now' = now + d
                   /\ rsp' = Normal(rsp, "Query: %q", in.query)
                   /\ results' = data
                   /\ queryTimes' = Append(queryTimes, now + d)
                   /\ pc' = "processResults"
    /\ UNCHANGED <<req, in, azureCreds, counterAtStart>>
    /\ UNCHANGED <<azureQuery, invocations, call>>

\* fn.go:94-98 with executeQuery and azQuery: the credential set is selected,
\* the remote call is made and takes d ticks; it fails with remoteErr or
\* returns data
ExecuteQuery(remoteErr, data, d) ==
    /\ pc = "executeQuery"
    /\ LET sel == selectCredentials(azureCreds, servicePrincipalCounter)
       IN  /\ servicePrincipalCounter' = sel.counter
           /\ selections' =
                IF sel.multi /\ sel.err = ""
                THEN Append(selections, [n |-> Len(azureCreds.v), index |-> sel.index])
                ELSE selections
           /\ IF sel.err # ""
              THEN /\ rsp' = Fatal(rsp, sel.err, <<>>)
                   /\ pc' = "done"
                   /\ UNCHANGED <<results, remoteCalls, now, queryTimes>>
              ELSE /\ remoteCalls' =
                        Append(remoteCalls,
                               [query |-> in.query,
                                subscriptions |->
                                    subscriptionScope(in, sel.allSubscriptionIDs),
                                multi |-> sel.multi,
                                index |-> sel.index,
                                err |-> remoteErr])
                   /\ now' = now + d
                   /\ IF remoteErr # ""
                      THEN /\ rsp' = Fatal(rsp, remoteErr, <<>>)
                           /\ pc' = "done"
                           /\ UNCHANGED <<results, queryTimes>>
                      ELSE /\ rsp' = Normal(rsp, "Query: %q", in.query)
                           /\ results' = data
                           /\ queryTimes' = Append(queryTimes, now + d)
                           /\ pc' = "processResults"
    /\ UNCHANGED <<req, in, azureCreds, counterAtStart>>
    /\ UNCHANGED <<azureQuery, invocations, call>>

\* a variant that sets the success condition whether the write failed or not
ProcessResultsAlwaysSucceeding ==
    /\ pc = "processResults"
    /\ rsp' = WithCondition(processResults(req, rsp, in, results, now).rsp,
                            FunctionSuccessTrue)
    /\ pc' = "done"
    /\ UNCHANGED <<servicePrincipalCounter, now, req, in, azureCreds, results,
                   remoteCalls, counterAtStart, selections>>
    /\ UNCHANGED <<azureQuery, invocations, call, queryTimes>>

\* fn.go:100-109
ProcessResults ==
    /\ pc = "processResults"
    /\ LET p == processResults(req, rsp, in, results, now)
       IN  IF p.err # ""
           THEN rsp' = p.rsp
           ELSE rsp' = WithCondition(p.rsp, FunctionSuccessTrue)
    /\ pc' = "done"
    /\ UNCHANGED <<servicePrincipalCounter, now, req, in, azureCreds, results,
                   remoteCalls, counterAtStart, selections>>
    /\ UNCHANGED <<azureQuery, invocations, call, queryTimes>>

\* return rsp, nil: the response is delivered and the frame is gone
Return ==
    /\ pc = "done"
    /\ req' = NoRequest
    /\ in' = ZeroInput
    /\ azureCreds' = NilCreds
    /\ rsp' = NoResponse
    /\ results' = Null
    /\ remoteCalls' = <<>>
    /\ counterAtStart' = servicePrincipalCounter
    /\ pc' = "idle"
    /\ UNCHANGED <<servicePrincipalCounter, now, selections>>
    /\ UNCHANGED <<azureQuery, invocations, call, queryTimes>>

(***************************************************************************)
(* The environment: the requests the function is sent, the clock values    *)
(* at which they arrive and what the remote query answers.                 *)
(***************************************************************************)
MaxIntervalMinutes == 2

MaxLatency == 1

MaxSelections == 4

KeyA == <<"a">>

KeyB == <<"b">>

KeyC == <<"c">>

KeyAB == <<"a", ".", "b">>

KeyO == <<"o">>

KeyQ == <<"q">>

KeyS == <<"s">>

KeyM == <<"m">>

KeyE == <<"e">>

KeyN == <<"n">>

Keep == Str(<<"k">>)

Rec == Map(Single(KeyN, Str(<<"v">>)))

Marker(s) == Map(Single(LastQueryTimeKey, Str(s)))

Sub1 == <<"s", "1">>

Sub2 == <<"s", "2">>

Sub3 == <<"s", "3">>

StatusA == StatusPrefix \o <<"a">>

StatusAB == StatusPrefix \o <<"a", ".", "b">>

StatusBracketAB == StatusPrefix \o <<"[", "a", ".", "b", "]">>

StatusEmptyPath == StatusPrefix

ContextA == ContextPrefix \o <<"a">>

ContextAB == ContextPrefix \o <<"a", ".", "b">>

NotCoolA == <<"n", "o", "t", "c", "o", "o", "l", ".", "a">>

QueryText == <<"Q">>

\* what the status of a composite holds at the target before the invocation
TargetValues ==
    { Str(<<"x">>), Str(<<>>), Num(0), Bool(FALSE), Null, EmptyMap, List(<<>>),
      List(<<Rec>>),
      List(<<Rec, Marker(FormatRFC3339(0))>>),
      List(<<Marker(FormatRFC3339(0)), Map(Single(LastQueryTimeKey, Num(0)))>>),
      List(<<Rec, Marker(<<"x">>)>>),
      Map(Put(Single(KeyN, Num(1)), LastQueryTimeKey, Str(FormatRFC3339(0)))),
      Map(Single(LastQueryTimeKey, Str(<<"x">>))),
      Map(Single(LastQueryTimeKey, Num(0))),
      Map(Put(Single(KeyB, List(<<Rec, Marker(FormatRFC3339(0))>>)), KeyC, Keep)) }

StatusTrees ==
    { Absent, Map(Single(KeyO, Keep)),
      Map(Single(KeyAB, List(<<Rec, Marker(FormatRFC3339(0))>>))) }
    \cup { Map(Put(Single(KeyO, Keep), KeyA, v)) : v \in TargetValues }

Observed(st) ==
    [apiVersion |-> "example.org/v1", kind |-> "XR", name |-> "cool-xr", status |-> st]

Desired(st) ==
    [apiVersion |-> "example.org/v1", kind |-> "XR", name |-> "", status |-> st]

\* what earlier pipeline steps hand over
DesiredTrees ==
    { EmptyMap, Map(Single(KeyC, Keep)),
      Map(Single(KeyA, List(<<Rec, Marker(FormatRFC3339(SecondsPerMinute * TicksPerSecond))>>))) }

SharedStatusTrees ==
    { Map(Single(KeyO, Keep)),
      Map(Put(Single(KeyO, Keep), KeyA, List(<<Rec, Marker(FormatRFC3339(0))>>))),
      Map(Put(Single(KeyO, Keep), KeyA, Str(<<"x">>))) }

Composites ==
    { <<Observed(st), NoComposite>> : st \in StatusTrees }
    \cup { <<Observed(st), Desired(d)>> : st \in SharedStatusTrees, d \in DesiredTrees }
    \cup { <<[NoComposite EXCEPT !.status = st], NoComposite>> : st \in SharedStatusTrees }

Contexts ==
    { Null, Map(Single(KeyO, Keep)) }
    \cup { Map(Put(Single(KeyO, Keep), KeyA, v)) :
             v \in { Str(<<"x">>), Str(<<>>), Num(0), Bool(FALSE), Null, EmptyMap,
                     List(<<>>), List(<<Rec>>),
                     Map(Put(Single(KeyB, List(<<Rec>>)), KeyC, Keep)) } }

\* the smallest number of minutes whose count of nanoseconds exceeds int64
FirstWrappingMinutes == 153722868

Intervals ==
    { None, Some(0 - 1), Some(0), Some(FirstWrappingMinutes) }
    \cup { Some(m) : m \in 1..MaxIntervalMinutes }

Flags == { None, Some(TRUE), Some(FALSE) }

\* the clock values at which requests arrive: each interval's last tick
\* within and first tick after, counted from clock value 0
Instants == { m * MinuteTicks - e : m \in 1..MaxIntervalMinutes, e \in {0, 1} }

FirstInstant == CHOOSE t \in Instants : \A u \in Instants : t <= u

\* the gate settings with the clock values that matter to them
GateSettings ==
    { <<f, None, FirstInstant>> : f \in Flags }
    \cup { <<f, i, FirstInstant>> : f \in {Some(TRUE), Some(FALSE)}, i \in {Some(0 - 1), Some(0)} }
    \cup { <<f, Some(m), t>> : f \in {Some(TRUE), Some(FALSE)},
                               m \in 1..MaxIntervalMinutes, t \in Instants }
    \cup { <<f, Some(FirstWrappingMinutes), FirstInstant>> : f \in {Some(TRUE), Some(FALSE)} }

ClientIdKey == <<"c", "l", "i", "e", "n", "t", "I", "d">>

Cred(id, sub) == Map(Put(Single(ClientIdKey, Str(id)), SubscriptionIdKey, Str(sub)))

SingleCreds == [present |-> TRUE, hasKey |-> TRUE, json |-> Cred(<<"c", "0">>, Sub1)]

MultiCreds(n) ==
    [present |-> TRUE, hasKey |-> TRUE,
     json |-> List([i \in 1..n |-> Cred(<<"c", DigitChars[i]>>,
                                        IF i = 1 THEN <<>> ELSE <<"s", DigitChars[i + 1]>>)])]

BadCreds ==
    { NoCreds,
      [present |-> TRUE, hasKey |-> FALSE, json |-> Null],
      [present |-> TRUE, hasKey |-> TRUE, json |-> Malformed],
      [present |-> TRUE, hasKey |-> TRUE, json |-> List(<<>>)],
      [present |-> TRUE, hasKey |-> TRUE, json |-> Str(<<"x">>)] }

Input(query, target, flag, interval) ==
    [ZeroInput EXCEPT !.query = query, !.target = target,
                      !.skipQueryWhenTargetHasData = flag,
                      !.queryIntervalMinutes = interval]

Request(input, creds, xrs, context) ==
    [inputOK |-> TRUE, input |-> input, creds |-> creds,
     observed |-> xrs[1], desired |-> xrs[2], context |-> context]

PlainXR == <<Observed(Map(Single(KeyO, Keep))), NoComposite>>

\* the composites whose status matters to the nested and the bracketed target
NestedComposites ==
    { <<Observed(st), NoComposite>> :
        st \in { Absent, Map(Single(KeyO, Keep)),
                 Map(Put(Single(KeyO, Keep), KeyA, Str(<<"x">>))),
                 Map(Put(Single(KeyO, Keep), KeyA, EmptyMap)),
                 Map(Put(Single(KeyO, Keep), KeyA,
                         Map(Put(Single(KeyB, List(<<Rec, Marker(FormatRFC3339(0))>>)),
                                 KeyC, Keep)))) } }
    \cup { <<Observed(Map(Single(KeyO, Keep))), Desired(Map(Single(KeyC, Keep)))>> }

BracketComposites ==
    { <<Observed(st), NoComposite>> :
        st \in { Map(Single(KeyO, Keep)),
                 Map(Single(KeyAB, List(<<Rec, Marker(FormatRFC3339(0))>>))),
                 Map(Put(Single(KeyO, Keep), KeyA, Str(<<"x">>))) } }

StatusTargets ==
    { <<StatusA, xrs>> : xrs \in Composites }
    \cup { <<StatusAB, xrs>> : xrs \in NestedComposites }
    \cup { <<StatusBracketAB, xrs>> : xrs \in BracketComposites }

\* requests with a status target, arriving at the clock value of their gate setting
StatusRequests ==
    { <<Request(Input(QueryText, tx[1], g[1], g[2]), SingleCreds, tx[2], Null), g[3]>> :
        tx \in StatusTargets, g \in GateSettings }

ContextRequests ==
    { <<Request(Input(QueryText, target, f, i), SingleCreds, PlainXR, c), FirstInstant>> :
        target \in {ContextA, ContextAB}, f \in Flags,
        i \in {None, Some(1)}, c \in Contexts }

\* the status and the context that references point into
RefStatus ==
    Map(Put(Put(Put(Put(Put(Single(KeyO, Keep), KeyQ, Str(<<"R">>)),
                        KeyS, List(<<Str(Sub2)>>)),
                    KeyM, List(<<Str(Sub2), Num(0)>>)),
                KeyE, List(<<>>)),
            KeyN, Rec))

RefContext ==
    Map(Put(Put(Single(KeyAB, Str(<<"D">>)), KeyQ, Str(<<"C">>)),
            KeyS, List(<<Str(Sub3)>>)))

QueryRefs ==
    { None, Some(StatusPrefix \o KeyQ), Some(StatusPrefix \o KeyS),
      Some(StatusPrefix \o <<"z">>), Some(ContextPrefix \o KeyQ),
      Some(ContextPrefix \o <<"[", "a", ".", "b", "]">>),
      Some(<<"s", "p", "e", "c", ".", "q">>) }

SubscriptionsRefs ==
    { None, Some(StatusPrefix \o KeyS), Some(StatusPrefix \o KeyM),
      Some(StatusPrefix \o KeyE), Some(StatusPrefix \o KeyQ),
      Some(StatusPrefix \o KeyN),
      Some(StatusPrefix \o <<"z">>), Some(ContextPrefix \o KeyS),
      Some(<<"s", "p", "e", "c", ".", "s">>) }

Refs ==
    { <<qr, None>> : qr \in QueryRefs }
    \cup { <<None, sr>> : sr \in SubscriptionsRefs }
    \cup { <<Some(StatusPrefix \o KeyQ), Some(ContextPrefix \o KeyS)>> }

RefRequests ==
    { <<Request([Input(q, StatusA, None, None) EXCEPT !.queryRef = ref[1],
                                                      !.subscriptionsRef = ref[2],
                                                      !.subscriptions = subs],
                SingleCreds, <<Observed(RefStatus), NoComposite>>, RefContext),
        FirstInstant>> :
        q \in {<<>>, QueryText}, ref \in Refs, subs \in {<<>>, <<Some(Sub1)>>} }

\* requests in which several reasons to stop hold at once
FailingRequests ==
    { <<[Request([Input(q, target, Some(TRUE), None) EXCEPT !.queryRef = qr,
                                                            !.subscriptionsRef = sr],
                 creds,
                 <<Observed(Map(Put(Single(KeyO, Keep), KeyA, Str(<<"x">>)))), NoComposite>>,
                 Null) EXCEPT !.inputOK = ok],
        FirstInstant>> :
        ok \in BOOLEAN, creds \in BadCreds \cup {SingleCreds},
        q \in {<<>>, QueryText}, target \in {NotCoolA, StatusA, StatusEmptyPath, StatusAB},
        qr \in {None, Some(<<"s", "p", "e", "c", ".", "q">>)},
        sr \in {None, Some(<<"s", "p", "e", "c", ".", "s">>)} }

Requests == StatusRequests \cup ContextRequests \cup RefRequests \cup FailingRequests

RemoteErrors == {"failed to finish the request"}

\* the Data of the remote answer
RemoteData ==
    { List(<<Rec>>), List(<<>>), Map(Single(KeyN, Num(1))),
      Map(Put(Single(KeyN, Num(1)), LastQueryTimeKey, Str(<<"x">>))), Null }

Step ==
    \/ PropagateDesiredXR
    \/ ParseInputAndCredentials
    \/ ResolveQuery
    \/ ResolveSubscriptions
    \/ CheckQuery
    \/ CheckTarget
    \/ ShouldSkipQuery
    \/ \E e \in RemoteErrors, d \in 0..MaxLatency : ExecuteQuery(e, Null, d)
    \/ \E data \in RemoteData, d \in 0..MaxLatency : ExecuteQuery("", data, d)
    \/ ProcessResults
    \/ Return

Init == InitAt(Uint64Zero)

Next ==
    \/ \E x \in Requests : Receive(x[1], x[2])
    \/ Step

Spec == Init /\ [][Next]_vars

(***************************************************************************)
(* Runs that rotate over several service principals.  SpecRotation starts  *)
(* with the counter at zero; SpecLongRun starts a run as it stands after   *)
(* 2^64 - 2 selections, two increments before the uint64 wraps.            *)
(***************************************************************************)
RotationXR ==
    <<Observed(Map(Put(Put(Single(KeyO, Keep), KeyA, Str(<<"x">>)),
                       KeyS, List(<<Str(Sub2), Str(Sub3)>>)))),
      NoComposite>>

\* one credential set without a subscriptionId
UnscopedCreds ==
    [present |-> TRUE, hasKey |-> TRUE, json |-> Map(Single(ClientIdKey, Str(<<"c", "0">>)))]

\* the subscription lists of the caller: none, a literal one, one referred to
SubscriptionSources ==
    { <<<<>>, None>>, <<<<Some(Sub1)>>, None>>, <<<<Some(Sub1)>>, Some(StatusPrefix \o KeyS)>> }

RotationRequests ==
    { <<[Request([Input(q, target, f, None) EXCEPT !.subscriptions = subs[1],
                                                   !.subscriptionsRef = subs[2]],
                 creds, RotationXR, Null) EXCEPT !.inputOK = ok],
        FirstInstant>> :
        ok \in BOOLEAN, q \in {<<>>, QueryText}, target \in {StatusA, NotCoolA},
        f \in {Some(TRUE), Some(FALSE)}, subs \in SubscriptionSources,
        creds \in {NoCreds, SingleCreds, UnscopedCreds, MultiCreds(2), MultiCreds(3)} }

NextRotation ==
    \/ \E x \in RotationRequests :
          Len(selections) < MaxSelections /\ Receive(x[1], x[2])
    \/ Step

SpecRotation == InitAt(Uint64Zero) /\ [][NextRotation]_vars

SpecLongRun == InitAt([Uint64Max EXCEPT ![1] = LimbBase - 2]) /\ [][NextRotation]_vars

(***************************************************************************)
(* Reconciliations of one composite.  The status that the response of one  *)
(* invocation hands on is applied to the composite, and the next request   *)
(* for it arrives, some time later, with that status as the observed one.  *)
(* Every query of these runs is answered, by a list or a map.              *)
(***************************************************************************)
\* the bound on the number of answered queries after which no further
\* reconciliation is looked at
MaxQueries == 2

\* the last clock value at which a reconciliation starts
PeriodHorizon == MinuteTicks + MaxQueries + 1

\* the time between the end of one invocation and the start of the next
Gaps == { 0, 1, MinuteTicks - 1, MinuteTicks }

PeriodicRequests ==
    { <<Request(Input(QueryText, StatusA, f, Some(n)), SingleCreds, PlainXR, Null), t>> :
        f \in {Some(TRUE), Some(FALSE)},
        n \in {1, FirstWrappingMinutes},
        t \in {0, 1} }

\* an answer of the remote query that is a list or a map
PeriodicData == { d \in RemoteData : d.t \in {"list", "map"} }

\* the next request for the composite: the one before it, with the status
\* that the last response handed on
Reconcile(gap) ==
    /\ pc = "done"
    /\ Len(queryTimes) < MaxQueries
    /\ now + gap <= PeriodHorizon
    /\ now' = now + gap
    /\ LET r == [req EXCEPT !.observed.status = rsp.desired.status]
       IN  /\ req' = r
           /\ rsp' = ResponseTo(r)
    /\ in' = ZeroInput
    /\ azureCreds' = NilCreds
    /\ results' = Null
    /\ remoteCalls' = <<>>
    /\ counterAtStart' = servicePrincipalCounter
    /\ pc' = "propagateDesiredXR"
    /\ UNCHANGED <<servicePrincipalCounter, selections, queryTimes>>
    /\ UNCHANGED <<azureQuery, invocations, call>>

NextPeriodic ==
    \/ \E x \in PeriodicRequests : Receive(x[1], x[2])
    \/ \E gap \in Gaps : Reconcile(gap)
    \/ PropagateDesiredXR
    \/ ParseInputAndCredentials
    \/ ResolveQuery
    \/ ResolveSubscriptions
    \/ CheckQuery
    \/ CheckTarget
    \/ ShouldSkipQuery
    \/ \E data \in PeriodicData, d \in 0..MaxLatency : ExecuteQuery("", data, d)
    \/ ProcessResults
    \/ Return

SpecPeriodic == Init /\ [][NextPeriodic]_vars

(***************************************************************************)
(* Requests whose desired composite has a status and no kind, left there   *)
(* by an earlier pipeline step: with an observed composite that has no     *)
(* kind either (or is not named at all), and with one that has.            *)
(***************************************************************************)
KindlessRequests ==
    { <<Request(Input(QueryText, StatusA, f, None), SingleCreds,
                <<[NoComposite EXCEPT !.status = st], [NoComposite EXCEPT !.status = d]>>,
                Null),
        FirstInstant>> :
        f \in Flags, st \in SharedStatusTrees \cup {Absent},
        d \in DesiredTrees \ {EmptyMap} }
    \cup
    { <<Request(Input(QueryText, StatusA, f, None), SingleCreds,
                <<Observed(st), [NoComposite EXCEPT !.status = d]>>, Null),
        FirstInstant>> :
        f \in Flags, st \in SharedStatusTrees, d \in DesiredTrees \ {EmptyMap} }

NextKindless ==
    \/ \E x \in Requests \cup KindlessRequests : Receive(x[1], x[2])
    \/ Step

SpecKindless == Init /\ [][NextKindless]_vars

(***************************************************************************)
(* Invocations in progress at once.  The server runs RunFunction of one    *)
(* Function value for every request, each call in a goroutine of its own:  *)
(* the calls share the Function's azureQuery field, which                  *)
(* parseInputAndCredentials reads and, when it reads nil, writes without   *)
(* synchronisation, and servicePrincipalCounter, which azQuery advances    *)
(* with one atomic add.  The steps between the two touch the call's own    *)
(* frame only.                                                             *)
(***************************************************************************)
sequential ==
    <<now, req, in, azureCreds, rsp, results, remoteCalls, counterAtStart, selections, pc>>

\* a request with n credential sets arrives for invocation k
Invoke(k, n) ==
    /\ invocations[k].pc = "idle"
    /\ invocations' = [invocations EXCEPT ![k] =
                          [IdleInvocation EXCEPT !.pc = "parseInputAndCredentials", !.n = n]]
    /\ UNCHANGED <<servicePrincipalCounter, azureQuery, sequential, call, queryTimes>>

\* fn.go:143: the read of f.azureQuery
ReadAzureQuery(k) ==
    /\ invocations[k].pc = "parseInputAndCredentials"
    /\ invocations' = [invocations EXCEPT
                          ![k].seen = azureQuery,
                          ![k].pc = IF azureQuery = "nil" THEN "setAzureQuery" ELSE "azQuery"]
    /\ UNCHANGED <<servicePrincipalCounter, azureQuery, sequential, call, queryTimes>>

\* fn.go:144: the write of f.azureQuery
SetAzureQuery(k) ==
    /\ invocations[k].pc = "setAzureQuery"
    /\ azureQuery' = "AzureQuery"
    /\ invocations' = [invocations EXCEPT ![k].pc = "azQuery"]
    /\ UNCHANGED <<servicePrincipalCounter, sequential, call, queryTimes>>

\* fn.go:397: atomic.AddUint64 and the index taken from the value it returns
SelectServicePrincipal(k) ==
    /\ invocations[k].pc = "azQuery"
    /\ servicePrincipalCounter' = AddUint64(servicePrincipalCounter)
    /\ invocations' = [invocations EXCEPT
                          ![k].value = AddUint64(servicePrincipalCounter),
                          ![k].index = RoundRobinIndex(AddUint64(servicePrincipalCounter),
                                                       invocations[k].n),
                          ![k].pc = "done"]
    /\ UNCHANGED <<azureQuery, sequential, call, queryTimes>>

CredentialSetCounts == {2, 3}

NextConcurrent ==
    \E k \in 1..MaxInvocations :
        \/ \E n \in CredentialSetCounts : Invoke(k, n)
        \/ ReadAzureQuery(k)
        \/ SetAzureQuery(k)
        \/ SelectServicePrincipal(k)

SpecConcurrent == InitAt(Uint64Zero) /\ [][NextConcurrent]_vars

(***************************************************************************)
(* The functions of the package applied on their own.  call holds the      *)
(* arguments of one application and, once it has been made, what it        *)
(* returned: SetNestedKey on a tree followed by the descent of             *)
(* getTargetData on that tree, and ParseNestedKey on a key.                *)
(***************************************************************************)
\* the bound on the number of segments of a parsed key
MaxSegments == 3

\* segments: plain ones, one holding a dot, one holding a blank and a dot alone
Segments == { KeyA, KeyB, KeyAB, <<"a", " ">>, <<".">> }

HasDot(seg) == \E i \in 1..Len(seg) : seg[i] = "."

\* the segments joined with dots, a segment that holds a dot in brackets
RECURSIVE JoinSegments(_)
JoinSegments(segs) ==
    LET h == IF HasDot(Head(segs)) THEN <<"[">> \o Head(segs) \o <<"]">> ELSE Head(segs)
    IN  IF Len(segs) = 1 THEN h ELSE h \o <<".">> \o JoinSegments(Tail(segs))

SegmentLists == UNION { [1..n -> Segments] : n \in 1..MaxSegments }

\* keys that are not the joining of any list of segments
OddKeys ==
    { <<>>, <<".">>, <<".", ".">>, <<"[", "]">>, <<"[">>, <<"]", "[">>, <<"[", ".", "]">>,
      <<"a", ".", ".", "b">>, <<".", "a", ".">>, <<"[", "a", "]", "[", "b", "]">>,
      <<"a", "[", "b", "]">>, <<"[", "a">> }

ParseArguments ==
    { [op |-> "ParseNestedKey", done |-> FALSE, segs |-> segs, key |-> JoinSegments(segs),
       err |-> FALSE, parts |-> <<>>] : segs \in SegmentLists }
    \cup { [op |-> "ParseNestedKey", done |-> FALSE, segs |-> <<>>, key |-> key,
            err |-> FALSE, parts |-> <<>>] : key \in OddKeys }

\* the trees that are written to: empty, with a scalar, a list, a null and
\* maps on the way, with the dotted key, and with a path of five maps
SetTrees ==
    { <<>>,
      Put(Single(KeyO, Keep), KeyA, Str(<<"x">>)),
      Put(Single(KeyO, Keep), KeyA, Map(Put(Single(KeyB, List(<<Rec>>)), KeyC, Keep))),
      Single(KeyA, Map(Single(KeyB, Map(Single(KeyC,
          Map(Single(KeyA, Map(Put(Single(KeyB, Str(<<"x">>)), KeyO, Keep))))))))),
      Single(KeyAB, Map(Single(KeyC, Num(1)))),
      Single(KeyA, List(<<Rec>>)),
      Single(KeyA, Map(Single(KeyB, Null))) }

SetPaths ==
    { <<KeyA>>, <<KeyB>>, <<KeyA, KeyB>>, <<KeyA, KeyA>>, <<KeyA, KeyB, KeyC>>,
      <<KeyAB, KeyC>>, <<KeyA, KeyB, KeyC, KeyA>>, <<KeyA, KeyB, KeyC, KeyA, KeyB>>,
      <<KeyA, KeyB, KeyC, KeyO, KeyB>> }

SetValues ==
    { Null, Str(<<"v">>), Str(<<>>), Num(1), Bool(FALSE), List(<<Rec>>), EmptyMap, Rec }

SetArguments ==
    { [op |-> "SetNestedKey", done |-> FALSE, tree |-> tree, segs |-> segs,
       key |-> JoinSegments(segs), value |-> value,
       err |-> FALSE, root |-> tree, got |-> [err |-> FALSE, val |-> Null]] :
        tree \in SetTrees, segs \in SetPaths, value \in SetValues }

\* SetNestedKey(root, key, value), then getTargetData for the target status.key
\* of a request whose status is root as the call left it
ApplySetNestedKey ==
    /\ call.op = "SetNestedKey" /\ ~call.done
    /\ LET set == SetNestedKey(call.tree, call.key, call.value)
           r == Request(Input(QueryText, StatusPrefix \o call.key, None, None), SingleCreds,
                        <<Observed(Map(set.root)), NoComposite>>, Null)
       IN  call' = [call EXCEPT !.done = TRUE, !.err = set.err, !.root = set.root,
                                !.got = getTargetData(r, r.input)]
    /\ UNCHANGED <<servicePrincipalCounter, azureQuery, invocations, sequential, queryTimes>>

ApplyParseNestedKey ==
    /\ call.op = "ParseNestedKey" /\ ~call.done
    /\ LET p == ParseNestedKey(call.key)
       IN  call' = [call EXCEPT !.done = TRUE, !.err = p.err, !.parts = p.parts]
    /\ UNCHANGED <<servicePrincipalCounter, azureQuery, invocations, sequential, queryTimes>>

InitCalls(calls) ==
    /\ call \in calls
    /\ servicePrincipalCounter = Uint64Zero
    /\ now = 0
    /\ req = NoRequest
    /\ in = ZeroInput
    /\ azureCreds = NilCreds
    /\ rsp = NoResponse
    /\ results = Null
    /\ remoteCalls = <<>>
    /\ counterAtStart = Uint64Zero
    /\ selections = <<>>
    /\ pc = "idle"
    /\ azureQuery = "nil"
    /\ invocations = [k \in 1..MaxInvocations |-> IdleInvocation]
    /\ queryTimes = <<>>

InitFunctions == InitCalls(SetArguments \cup ParseArguments)

NextFunctions ==
    \/ ApplySetNestedKey
    \/ ApplyParseNestedKey

SpecFunctions == InitFunctions /\ [][NextFunctions]_vars

\* SetNestedKey on its own, and within the invocations of Spec
NextSetNestedKey ==
    \/ ApplySetNestedKey
    \/ call = NoCall /\ Next

SpecSetNestedKey == InitCalls(SetArguments \cup {NoCall}) /\ [][NextSetNestedKey]_vars

(***************************************************************************)
(* What the properties speak of, stated from the request and the response  *)
(* alone.                                                                  *)
(***************************************************************************)
Finished == pc = "done"

QueryExecuted == Len(remoteCalls) > 0

HasResult(severity) == \E i \in 1..Len(rsp.results) : rsp.results[i].severity = severity

HasMessage(msg) == \E i \in 1..Len(rsp.results) : rsp.results[i].msg = msg

SuccessTrue == [type |-> "FunctionSuccess", status |-> "True", reason |-> "Success"]

SuccessFalse == [type |-> "FunctionSuccess", status |-> "False", reason |-> "InternalError"]

SkipCondition(reason) == [type |-> "FunctionSkip", status |-> "True", reason |-> reason]

SkippedWith(reason) ==
    \E i \in 1..Len(rsp.conditions) : rsp.conditions[i] = SkipCondition(reason)

\* the query ran and its result was written
Succeeded ==
    /\ QueryExecuted
    /\ \E i \in 1..Len(rsp.conditions) : rsp.conditions[i] = SuccessTrue

StatusTarget == in.target \in {StatusA, StatusAB, StatusBracketAB}

ContextTarget == in.target \in {ContextA, ContextAB}

\* the segments each target of the model names
TargetPath ==
    CASE in.target = StatusA -> <<KeyA>>
      [] in.target = StatusAB -> <<KeyA, KeyB>>
      [] in.target = StatusBracketAB -> <<KeyAB>>
      [] in.target = ContextA -> <<KeyA>>
      [] in.target = ContextAB -> <<KeyA, KeyB>>
      [] OTHER -> <<>>

StatusOf(xr) == IF xr.status.t = "map" THEN xr.status.v ELSE <<>>

\* the status of the desired composite when it has one that is not empty,
\* else the status of the observed composite
WorkingStatus ==
    IF DOMAIN StatusOf(req.desired) # {} THEN StatusOf(req.desired)
    ELSE StatusOf(req.observed)

\* the desired composite as handed on: identity from the observed composite
\* when it has no kind, and the working status
PropagatedDesired ==
    LET d == IF req.desired.kind = ""
             THEN [apiVersion |-> req.observed.apiVersion, kind |-> req.observed.kind,
                   name |-> req.observed.name, status |-> req.desired.status]
             ELSE req.desired
    IN  IF DOMAIN WorkingStatus # {} THEN [d EXCEPT !.status = Map(WorkingStatus)] ELSE d

RECURSIVE Lookup(_, _)
Lookup(v, segs) ==
    IF Len(segs) = 0 THEN [found |-> TRUE, val |-> v]
    ELSE IF v.t = "map" /\ Head(segs) \in DOMAIN v.v
         THEN Lookup(v.v[Head(segs)], Tail(segs))
         ELSE [found |-> FALSE, val |-> Null]

\* new is old with nothing changed off the path segs
RECURSIVE FrameKept(_, _, _)
FrameKept(old, new, segs) ==
    /\ (DOMAIN old) \ {Head(segs)} = (DOMAIN new) \ {Head(segs)}
    /\ \A k \in (DOMAIN old) \ {Head(segs)} : new[k] = old[k]
    /\ Head(segs) \in DOMAIN new
    /\ Len(segs) > 1 =>
          /\ new[Head(segs)].t = "map"
          /\ IF Head(segs) \in DOMAIN old
             THEN /\ old[Head(segs)].t = "map"
                  /\ FrameKept(old[Head(segs)].v, new[Head(segs)].v, Tail(segs))
             ELSE FrameKept(<<>>, new[Head(segs)].v, Tail(segs))

\* the tree a target points into, as the invocation found it
TargetTree ==
    IF StatusTarget THEN Map(WorkingStatus)
    ELSE IF req.context.t = "map" THEN req.context ELSE EmptyMap

\* the tree a target points into, in the response
ResponseTree == IF StatusTarget THEN rsp.desired.status ELSE rsp.context

NoData == {Null, EmptyMap, List(<<>>), Str(<<>>)}

FlagSet ==
    in.skipQueryWhenTargetHasData # None /\ in.skipQueryWhenTargetHasData[1] = TRUE

IntervalSet == in.queryIntervalMinutes # None /\ in.queryIntervalMinutes[1] > 0

\* the condition of the has-data gate
HasDataCond ==
    /\ FlagSet
    /\ StatusTarget \/ ContextTarget
    /\ Lookup(TargetTree, TargetPath).found
    /\ Lookup(TargetTree, TargetPath).val \notin NoData

IsMarked(e) ==
    e.t = "map" /\ LastQueryTimeKey \in DOMAIN e.v /\ e.v[LastQueryTimeKey].t = "str"

\* the lastQueryTime string a value carries: of the map itself, or of the
\* last marked element of the list
MarkerOf(v) ==
    IF v.t = "map" /\ IsMarked(v) THEN <<v.v[LastQueryTimeKey].v>>
    ELSE IF v.t = "list" /\ \E i \in 1..Len(v.v) : IsMarked(v.v[i])
    THEN LET last == CHOOSE i \in 1..Len(v.v) :
                        /\ IsMarked(v.v[i])
                        /\ \A j \in (i + 1)..Len(v.v) : ~IsMarked(v.v[j])
         IN  <<v.v[last].v[LastQueryTimeKey].v>>
    ELSE <<>>

\* the condition of the interval gate at the current clock value
IntervalCond ==
    /\ IntervalSet
    /\ StatusTarget
    /\ Lookup(Map(WorkingStatus), TargetPath).found
    /\ LET m == MarkerOf(Lookup(Map(WorkingStatus), TargetPath).val)
       IN  /\ Len(m) = 1
           /\ ~ParseRFC3339(m[1]).err
           /\ (now - ParseRFC3339(m[1]).time) \div (SecondsPerMinute * TicksPerSecond)
                < in.queryIntervalMinutes[1]

GoodCreds == {SingleCreds, MultiCreds(2), MultiCreds(3)}

RefPrefixOK(ref) ==
    ref = None \/ HasPrefix(ref[1], StatusPrefix) \/ HasPrefix(ref[1], ContextPrefix)

\* the invocation has what it takes to reach the skip gates
Eligible ==
    /\ req.inputOK
    /\ req.creds \in GoodCreds
    /\ RefPrefixOK(req.input.queryRef)
    /\ RefPrefixOK(req.input.subscriptionsRef)
    /\ pc \in {"shouldSkipQuery", "executeQuery", "processResults", "done"}
    /\ Len(in.query) > 0
    /\ StatusTarget \/ ContextTarget

(***************************************************************************)
(* Properties                                                              *)
(***************************************************************************)

\* C1: after a query that succeeded with a status target, the status of the
\* desired composite in the response is the working status with nothing but
\* the target path changed: every other key, at every level along the path,
\* is there with the value it had.
C1_FrameOfStatusWrite ==
    (Finished /\ Succeeded /\ StatusTarget) =>
        /\ rsp.desired.status.t = "map"
        /\ FrameKept(WorkingStatus, rsp.desired.status.v, TargetPath)

C1_Witness ==
    /\ Finished /\ Succeeded
    /\ in.target = StatusAB
    /\ KeyO \in DOMAIN WorkingStatus
    /\ KeyA \in DOMAIN WorkingStatus
    /\ WorkingStatus[KeyA].t = "map"
    /\ KeyC \in DOMAIN WorkingStatus[KeyA].v
    /\ rsp.desired.status.v[KeyA].v[KeyC] = WorkingStatus[KeyA].v[KeyC]
    /\ rsp.desired.status.v[KeyO] = WorkingStatus[KeyO]
    /\ Lookup(rsp.desired.status, TargetPath).found

ObservedHoldsData ==
    /\ Lookup(req.observed.status, TargetPath).found
    /\ Lookup(req.observed.status, TargetPath).val \notin NoData

PastGates == pc \in {"executeQuery", "processResults", "done"}

SkippedOnData ==
    /\ Finished
    /\ SkippedWith("SkippedQuery")
    /\ rsp.desired.status = Map(WorkingStatus)
    /\ ~QueryExecuted

\* C3 as stated: with the skip flag true, a status target and non-empty data
\* at the target in the observed composite's status, an invocation that
\* reaches the gates, the interval gate not firing, ends with
\* FunctionSkip/SkippedQuery, the status unchanged and no remote query,
\* whatever the desired composite is.
C3_Original ==
    (Eligible /\ PastGates /\ FlagSet /\ StatusTarget /\ ObservedHoldsData
        /\ ~SkippedWith("IntervalLimit")) => SkippedOnData

\* C3: with the skip flag true, a status target and non-empty data at the
\* target in the working status (the desired composite's status when it has
\* a non-empty one, else the observed composite's), an invocation that
\* reaches the gates, the interval gate not firing, ends with
\* FunctionSkip/SkippedQuery, the status unchanged and no remote query.
C3_SkipOnWorkingStatus ==
    (Eligible /\ PastGates /\ FlagSet /\ StatusTarget /\ HasDataCond
        /\ ~SkippedWith("IntervalLimit")) => SkippedOnData

C3_Witness ==
    /\ SkippedOnData
    /\ StatusTarget
    /\ DOMAIN StatusOf(req.desired) # {}
    /\ HasDataCond
    /\ ~ObservedHoldsData

\* C4: the has-data gate skips exactly when the flag is true and the value at
\* the target path is present and is none of null, the empty map, the empty
\* list and the empty string; the number zero and the boolean false are data.
C4_HasDataGate ==
    /\ (Finished /\ SkippedWith("SkippedQuery")) => HasDataCond
    /\ pc = "executeQuery" => ~HasDataCond

C4_Witness ==
    /\ Finished
    /\ SkippedWith("SkippedQuery")
    /\ Lookup(TargetTree, TargetPath).val \in {Num(0), Bool(FALSE)}

\* C5 as stated: the interval gate skips exactly when the interval is greater
\* than zero, the target is a status target, a lastQueryTime marker can be
\* taken from the value at the target and read as a timestamp, and less than
\* the interval has elapsed since it; in every other case the gate lets the
\* invocation go on.
C5_IntervalGate ==
    /\ (Finished /\ SkippedWith("IntervalLimit")) => IntervalCond
    /\ (pc = "executeQuery" \/ (Finished /\ SkippedWith("SkippedQuery"))) => ~IntervalCond

\* C5 for the intervals whose count of nanoseconds fits int64: the same
\* equivalence holds.
C5_IntervalGateWithoutOverflow ==
    (in.queryIntervalMinutes = None \/ in.queryIntervalMinutes[1] < FirstWrappingMinutes)
        => C5_IntervalGate

\* the value now at the target path of the response
Written == Lookup(ResponseTree, TargetPath).val

\* s is the timestamp of the current clock value, cut to whole seconds
StampOfNow(s) ==
    /\ ~ParseRFC3339(s).err
    /\ ParseRFC3339(s).time = (now \div TicksPerSecond) * TicksPerSecond

\* w is data with a lastQueryTime marker attached
Stamped(data, w) ==
    \/ /\ data.t = "list" /\ w.t = "list"
       /\ Len(w.v) = Len(data.v) + 1
       /\ SubSeq(w.v, 1, Len(data.v)) = data.v
       /\ w.v[Len(w.v)].t = "map"
       /\ DOMAIN w.v[Len(w.v)].v = {LastQueryTimeKey}
       /\ w.v[Len(w.v)].v[LastQueryTimeKey].t = "str"
       /\ StampOfNow(w.v[Len(w.v)].v[LastQueryTimeKey].v)
    \/ /\ data.t = "map" /\ w.t = "map"
       /\ DOMAIN w.v = DOMAIN data.v \cup {LastQueryTimeKey}
       /\ \A k \in DOMAIN data.v \ {LastQueryTimeKey} : w.v[k] = data.v[k]
       /\ w.v[LastQueryTimeKey].t = "str"
       /\ StampOfNow(w.v[LastQueryTimeKey].v)

\* C6 as stated: when a query was executed and written, the written result
\* carries a lastQueryTime marker exactly when the interval is greater than
\* zero and the target is a status target, and is the result itself otherwise.
C6_Original ==
    (Finished /\ Succeeded) =>
        /\ Stamped(results, Written) <=> (IntervalSet /\ StatusTarget)
        /\ ~Stamped(results, Written) => Written = results

\* C6: when a query was executed and written, the written result carries a
\* lastQueryTime marker exactly when the interval is greater than zero, the
\* target is a status target and the result is a list or a map: appended as
\* the last element {lastQueryTime: t} of a list, set as the key lastQueryTime
\* of a map next to its other keys unchanged.  In every other case, a result
\* that is neither a list nor a map included, the result is written as it is.
C6_MarkerOnListsAndMaps ==
    (Finished /\ Succeeded) =>
        /\ Stamped(results, Written)
              <=> (IntervalSet /\ StatusTarget /\ results.t \in {"list", "map"})
        /\ ~Stamped(results, Written) => Written = results

C6_Witness ==
    /\ Finished /\ Succeeded
    /\ results.t = "list"
    /\ Len(results.v) > 0
    /\ Stamped(results, Written)

\* either gate fired: the invocation ended at the gates, or the condition of
\* the has-data gate holds
GateFired ==
    \/ SkippedWith("IntervalLimit")
    \/ SkippedWith("SkippedQuery")
    \/ HasDataCond
    \/ ~QueryExecuted

\* C7: whenever either skip gate fires in an invocation that reaches the
\* gates, the remote query is not invoked, the conditions of the response are
\* FunctionSkip (reason IntervalLimit or SkippedQuery) and then
\* FunctionSuccess=true, there is no fatal result, and the desired composite
\* and the context are the propagated inbound state.
C7_SkipIsSuccess ==
    (Finished /\ Eligible /\ GateFired) =>
        /\ ~QueryExecuted
        /\ \E reason \in {"IntervalLimit", "SkippedQuery"} :
              rsp.conditions = <<SkipCondition(reason), SuccessTrue>>
        /\ ~HasResult("Fatal")
        /\ rsp.desired = PropagatedDesired
        /\ rsp.context = req.context

C7_Witness ==
    /\ Finished /\ Eligible
    /\ IntervalCond
    /\ rsp.conditions = <<SkipCondition("IntervalLimit"), SuccessTrue>>
    /\ DOMAIN WorkingStatus # {}
    /\ rsp.desired.status = Map(WorkingStatus)

TerminalConditions ==
    {<<SuccessTrue>>, <<SuccessFalse>>,
     <<SkipCondition("IntervalLimit"), SuccessTrue>>,
     <<SkipCondition("SkippedQuery"), SuccessTrue>>}

\* C8 as stated: every response carries exactly one terminal condition:
\* FunctionSuccess=true, FunctionSuccess=false, or FunctionSkip followed by
\* FunctionSuccess=true.
C8_Original == Finished => rsp.conditions \in TerminalConditions

\* the credential payload has no entry named credentials
NoCredentialsEntry == req.creds.present /\ ~req.creds.hasKey

\* C8: a response carries at most one terminal condition.  It is
\* FunctionSuccess=true alone after a query that ran and was written,
\* FunctionSkip followed by FunctionSuccess=true after a skip, and
\* FunctionSuccess=false alone when the input cannot be read.  Every other
\* fatal outcome, the empty-query warning and the return for a credential
\* payload without a credentials entry carry no condition at all.
C8_TerminalConditions ==
    Finished =>
        \/ /\ rsp.conditions = <<SuccessTrue>>
           /\ QueryExecuted /\ ~HasResult("Fatal")
        \/ /\ rsp.conditions \in {<<SkipCondition("IntervalLimit"), SuccessTrue>>,
                                  <<SkipCondition("SkippedQuery"), SuccessTrue>>}
           /\ ~QueryExecuted /\ ~HasResult("Fatal")
        \/ /\ rsp.conditions = <<SuccessFalse>>
           /\ ~req.inputOK /\ HasResult("Fatal")
        \/ /\ rsp.conditions = <<>>
           /\ req.inputOK
           /\ \/ HasResult("Fatal")
              \/ HasMessage("Query is empty")
              \/ NoCredentialsEntry /\ rsp.results = <<>>

C8_Witness ==
    /\ Finished
    /\ req.inputOK
    /\ HasMessage("Unrecognized target field")
    /\ HasResult("Fatal")
    /\ rsp.conditions = <<>>

\* C9 as stated: with N credential sets, the index selected after index i is
\* (i + 1) mod N, for every value of the counter.
C9_CyclicOrder ==
    \A i \in 1..(Len(selections) - 1) :
        selections[i].n = selections[i + 1].n =>
            selections[i + 1].index = (selections[i].index + 1) % selections[i].n

\* the invocation selected among several credential sets
SelectedAmongSeveral ==
    /\ req.creds \in {MultiCreds(2), MultiCreds(3)}
    /\ pc \in {"processResults", "done"}
    /\ QueryExecuted

RECURSIVE CounterAfter(_, _)
CounterAfter(c, n) == IF n = 0 THEN c ELSE AddUint64(CounterAfter(c, n - 1))

Selected == { k \in 1..MaxInvocations : invocations[k].pc = "done" }

\* the part of C11 about the counter: the values that the invocations read
\* are pairwise distinct, they are the values that follow the initial one
\* without a gap, and the counter stands at the initial value plus the number
\* of selections made.
C11_AtomicIncrementAndRead ==
    /\ \A j, k \in Selected : j # k => invocations[j].value # invocations[k].value
    /\ { invocations[k].value : k \in Selected }
          = { CounterAfter(counterAtStart, i) : i \in 1..Cardinality(Selected) }
    /\ servicePrincipalCounter = CounterAfter(counterAtStart, Cardinality(Selected))

\* C11 as stated: under any interleaving each selection is one atomic
\* increment-and-read of the counter (values distinct and consecutive, no
\* lost update), and the counter is the only state shared between
\* invocations: no invocation reads anything else that another has written.
C11_CounterIsOnlySharedState ==
    /\ C11_AtomicIncrementAndRead
    /\ \A k \in 1..MaxInvocations : invocations[k].seen # "AzureQuery"

\* the payload is one credential set or a non-empty list of credential sets
UsablePayload ==
    \/ IsStringMap(req.creds.json)
    \/ /\ req.creds.json.t = "list"
       /\ Len(req.creds.json.v) > 0
       /\ \A i \in 1..Len(req.creds.json.v) : IsStringMap(req.creds.json.v[i])

CredentialAbsent == ~req.creds.present

PayloadMissing == req.creds.present /\ ~req.creds.hasKey

PayloadMalformed == req.creds.present /\ req.creds.hasKey /\ ~UsablePayload

FatalWithoutQuery == HasResult("Fatal") /\ ~QueryExecuted

\* C12 as stated: when the input is read and the azure-creds credential is
\* absent, or its payload is missing or malformed, the response carries a
\* fatal result, with the message "failed to get azure-creds credentials"
\* when the credential is absent, and no remote query is attempted.
C12_CredentialErrorIsFatal ==
    (Finished /\ req.inputOK /\ (CredentialAbsent \/ PayloadMissing \/ PayloadMalformed)) =>
        /\ FatalWithoutQuery
        /\ CredentialAbsent => HasMessage("failed to get azure-creds credentials")

\* C12 for the absent credential and the malformed payload: the fatal result
\* is there and no remote query is attempted.
C12_FatalWhenAbsentOrMalformed ==
    (Finished /\ req.inputOK /\ (CredentialAbsent \/ PayloadMalformed)) =>
        /\ FatalWithoutQuery
        /\ CredentialAbsent => HasMessage("failed to get azure-creds credentials")

\* the credential sets of the request, one or several
CredentialSets ==
    IF req.creds.json.t = "list" THEN req.creds.json.v
    ELSE IF req.creds.json.t = "map" THEN <<req.creds.json>>
    ELSE <<>>

CarriesSubscriptionId(c) ==
    /\ SubscriptionIdKey \in DOMAIN c.v
    /\ Len(c.v[SubscriptionIdKey].v) > 0

\* the non-empty subscriptionId values of all credential sets, in their order
CredentialSubscriptions ==
    LET with == SelectSeq(CredentialSets, CarriesSubscriptionId)
    IN  [i \in 1..Len(with) |-> Some(with[i].v[SubscriptionIdKey].v)]

\* C13: the subscription scope of the remote query is the caller's
\* subscription list, literal or resolved, when it is non-empty; else the
\* non-empty subscriptionId values of all credential sets, the sets not
\* selected included; else no subscription at all, with which the query is
\* made all the same.
C13_SubscriptionScope ==
    \A i \in 1..Len(remoteCalls) :
        remoteCalls[i].subscriptions =
            IF Len(in.subscriptions) > 0 THEN in.subscriptions
            ELSE CredentialSubscriptions

C13_Witness ==
    /\ Finished /\ Succeeded
    /\ req.creds = MultiCreds(3)
    /\ remoteCalls[1].index = 0
    /\ ~CarriesSubscriptionId(CredentialSets[1])
    /\ Len(in.subscriptions) = 0
    /\ Len(remoteCalls[1].subscriptions) = 2

\* the query was made without any subscription and succeeded
C13_NoFilterIsNoError ==
    /\ Finished /\ Succeeded
    /\ req.creds = UnscopedCreds
    /\ remoteCalls[1].subscriptions = <<>>

\* the invocation is past the resolution of queryRef
QueryResolved ==
    \/ pc \in {"resolveSubscriptions", "checkQuery", "checkTarget", "shouldSkipQuery",
               "executeQuery", "processResults"}
    \/ Finished /\ req.inputOK /\ req.creds \in GoodCreds

\* what a reference with a recognised prefix points at
Referred(ref) ==
    IF HasPrefix(ref, StatusPrefix)
    THEN Lookup(Map(WorkingStatus), ParseNestedKey(TrimPrefix(ref, StatusPrefix)).parts)
    ELSE Lookup(IF req.context.t = "map" THEN req.context ELSE EmptyMap,
                ParseNestedKey(TrimPrefix(ref, ContextPrefix)).parts)

QueryRefRecognised ==
    /\ req.input.queryRef # None
    /\ RefPrefixOK(req.input.queryRef)

RefersToString(ref) == Referred(ref).found /\ Referred(ref).val.t = "str"

\* C14: with a queryRef of prefix status. or context., the query is the string
\* the path holds, and that string is what the remote call receives; when the
\* path is absent or holds no string the literal query stays, nothing is
\* recorded in the response and the invocation goes on.
C14_QueryFromReference ==
    (QueryResolved /\ QueryRefRecognised) =>
        /\ in.query = IF RefersToString(req.input.queryRef[1])
                      THEN Referred(req.input.queryRef[1]).val.v
                      ELSE req.input.query
        /\ \A i \in 1..Len(remoteCalls) : remoteCalls[i].query = in.query
        /\ pc = "resolveSubscriptions" => rsp.results = <<>>
        /\ ~HasMessage("Unrecognized QueryRef field")

C14_Witness ==
    /\ Finished /\ Succeeded
    /\ QueryRefRecognised
    /\ RefersToString(req.input.queryRef[1])
    /\ req.input.query = QueryText
    /\ remoteCalls[1].query = <<"R">>

\* a reference to a list: the literal query was sent
C14_LiteralKept ==
    /\ Finished /\ Succeeded
    /\ QueryRefRecognised
    /\ Referred(req.input.queryRef[1]).found
    /\ ~RefersToString(req.input.queryRef[1])
    /\ remoteCalls[1].query = QueryText

\* a fatal result with this message about this reference
FatalNaming(msg, ref) ==
    \E i \in 1..Len(rsp.results) :
        rsp.results[i] = Result("Fatal", msg, ref)

\* the reference that stops the invocation: queryRef is looked at first
UnrecognisedRefNamed ==
    IF ~RefPrefixOK(req.input.queryRef)
    THEN FatalNaming("Unrecognized QueryRef field", req.input.queryRef[1])
    ELSE FatalNaming("Unrecognized SubscriptionsRef field", req.input.subscriptionsRef[1])

SomeRefUnrecognised ==
    ~RefPrefixOK(req.input.queryRef) \/ ~RefPrefixOK(req.input.subscriptionsRef)

\* nothing but the propagated composite and the inbound context is handed on
NothingWritten ==
    /\ rsp.desired = PropagatedDesired
    /\ rsp.context = req.context

NoSuccessTrue == \A i \in 1..Len(rsp.conditions) : rsp.conditions[i] # SuccessTrue

StoppedAtReference ==
    /\ UnrecognisedRefNamed
    /\ ~QueryExecuted
    /\ NothingWritten
    /\ NoSuccessTrue

\* C15 as stated: whenever the queryRef or the subscriptionsRef of a readable
\* input starts with neither status. nor context., the invocation ends with a
\* fatal result naming the field, without remote query, target write or
\* FunctionSuccess=true.
C15_Original ==
    (Finished /\ req.inputOK /\ SomeRefUnrecognised) => StoppedAtReference

\* C15, amended: the same, for invocations whose credentials were obtained;
\* without them the invocation ends before the references are looked at, with
\* no remote query, no target write and no FunctionSuccess=true either.
C15_UnrecognisedReferenceIsFatal ==
    (Finished /\ req.inputOK /\ SomeRefUnrecognised) =>
        /\ req.creds \in GoodCreds => StoppedAtReference
        /\ ~QueryExecuted /\ NothingWritten /\ NoSuccessTrue

C15_Witness ==
    /\ Finished /\ req.inputOK /\ req.creds \in GoodCreds
    /\ RefPrefixOK(req.input.queryRef)
    /\ ~RefPrefixOK(req.input.subscriptionsRef)
    /\ Len(req.input.query) > 0
    /\ StoppedAtReference

\* the invocation is past the resolution of subscriptionsRef
SubscriptionsResolved ==
    \/ pc \in {"checkQuery", "checkTarget", "shouldSkipQuery", "executeQuery",
               "processResults"}
    \/ /\ Finished /\ req.inputOK /\ req.creds \in GoodCreds
       /\ RefPrefixOK(req.input.queryRef)

SubscriptionsRefRecognised ==
    /\ req.input.subscriptionsRef # None
    /\ RefPrefixOK(req.input.subscriptionsRef)

\* what subscriptionsRef points at, its path split at the dots
ReferredSubscriptions ==
    LET ref == req.input.subscriptionsRef[1]
    IN  IF HasPrefix(ref, StatusPrefix)
        THEN Lookup(Map(WorkingStatus), SplitDots(TrimPrefix(ref, StatusPrefix), 1))
        ELSE Lookup(IF req.context.t = "map" THEN req.context ELSE EmptyMap,
                    SplitDots(TrimPrefix(ref, ContextPrefix), 1))

RefersToList == ReferredSubscriptions.found /\ ReferredSubscriptions.val.t = "list"

RefersToListOfStrings ==
    /\ RefersToList
    /\ \A i \in 1..Len(ReferredSubscriptions.val.v) :
           ReferredSubscriptions.val.v[i].t = "str"

LiteralSubscriptionsKept ==
    /\ in.subscriptions = req.input.subscriptions
    /\ \A i \in 1..Len(remoteCalls) :
           Len(req.input.subscriptions) > 0 =>
               remoteCalls[i].subscriptions = req.input.subscriptions
    /\ pc = "checkQuery" => rsp.results = <<>>
    /\ ~HasMessage("Unrecognized SubscriptionsRef field")

\* C16 as stated: when subscriptionsRef points at an absent path, a scalar, a
\* map or a list holding an element that is no string, the literal
\* subscriptions of the input stay as they are and the invocation goes on.
C16_UnresolvedKeepsLiteral ==
    (SubscriptionsResolved /\ SubscriptionsRefRecognised /\ ~RefersToListOfStrings) =>
        LiteralSubscriptionsKept

\* the part of C16 that holds: the same for an absent path, a scalar and a map
C16_NonListKeepsLiteral ==
    (SubscriptionsResolved /\ SubscriptionsRefRecognised /\ ~RefersToList) =>
        LiteralSubscriptionsKept

\* a query scoped to the literal list although subscriptionsRef names a map
C16_MapLeftUnresolved ==
    /\ Finished /\ Succeeded
    /\ SubscriptionsRefRecognised
    /\ ReferredSubscriptions.found /\ ReferredSubscriptions.val.t = "map"
    /\ remoteCalls[1].subscriptions = <<Some(Sub1)>>

\* a query scoped to a list holding a nil entry
C16_NilSubscriptionSent ==
    /\ Finished /\ Succeeded
    /\ req.input.subscriptions = <<Some(Sub1)>>
    /\ remoteCalls[1].subscriptions = <<Some(Sub2), None>>

\* input and credentials are valid and both references have a known prefix
ResolutionPassed ==
    /\ req.inputOK
    /\ req.creds \in GoodCreds
    /\ RefPrefixOK(req.input.queryRef)
    /\ RefPrefixOK(req.input.subscriptionsRef)

WarnedOfEmptyQuery ==
    \E i \in 1..Len(rsp.results) :
        rsp.results[i].severity = "Warning" /\ rsp.results[i].msg = "Query is empty"

\* C17: when the query is empty after the references are resolved, input and
\* credentials being valid, the response carries the warning "Query is empty"
\* and no fatal result, no remote query is made, and neither the status nor
\* the context is written.
C17_EmptyQueryWarns ==
    (Finished /\ ResolutionPassed /\ Len(in.query) = 0) =>
        /\ WarnedOfEmptyQuery
        /\ ~HasResult("Fatal")
        /\ ~QueryExecuted
        /\ NothingWritten

C17_Witness ==
    /\ Finished /\ ResolutionPassed
    /\ req.input.queryRef # None
    /\ Len(in.query) = 0
    /\ WarnedOfEmptyQuery
    /\ rsp.desired.status = RefStatus

TargetUnrecognised ==
    /\ ~HasPrefix(req.input.target, StatusPrefix)
    /\ ~HasPrefix(req.input.target, ContextPrefix)

StoppedAtTarget ==
    /\ FatalNaming("Unrecognized target field", req.input.target)
    /\ ~QueryExecuted
    /\ rsp.desired = PropagatedDesired
    /\ NoSuccessTrue

\* C18 as stated: with a readable input, credentials obtained and references
\* of known prefix, a target that starts with neither status. nor context.
\* yields the fatal result "Unrecognized target field: <target>", before any
\* remote query, the composite handed on being the propagated one.
C18_Original ==
    (Finished /\ ResolutionPassed /\ TargetUnrecognised) => StoppedAtTarget

\* C18, amended: the same, when the query is not empty after resolution; with
\* an empty query the invocation ends with the warning of C17 and no fatal
\* result, the target not being looked at.
C18_UnrecognisedTargetIsFatal ==
    (Finished /\ ResolutionPassed /\ TargetUnrecognised) =>
        IF Len(in.query) > 0 THEN StoppedAtTarget
        ELSE WarnedOfEmptyQuery /\ ~HasResult("Fatal") /\ ~QueryExecuted

C18_Witness ==
    /\ Finished /\ ResolutionPassed /\ TargetUnrecognised
    /\ Len(in.query) > 0
    /\ StoppedAtTarget
    /\ DOMAIN WorkingStatus # {}

RemoteFailed == QueryExecuted /\ remoteCalls[1].err # ""

NoSkipReported ==
    \A i \in 1..Len(rsp.conditions) : rsp.conditions[i].type # "FunctionSkip"

\* C19: when the remote query fails the response carries a fatal result with
\* the cause, status and context stay as propagated, no FunctionSuccess=true
\* and no skip condition is set, and the remote call was made once.
C19_RemoteFailureIsFatal ==
    RemoteFailed =>
        /\ Finished
        /\ FatalNaming(remoteCalls[1].err, <<>>)
        /\ NothingWritten
        /\ NoSuccessTrue
        /\ NoSkipReported
        /\ Len(remoteCalls) = 1

C19_Witness ==
    /\ RemoteFailed /\ Finished
    /\ ContextTarget
    /\ req.context # Null
    /\ HasResult("Fatal")

\* the invocation has copied the inbound context to the response
ContextPreserved == pc \notin {"idle", "propagateDesiredXR"}

WroteToContext == Finished /\ Succeeded /\ ContextTarget

\* the keys of the inbound context; none when there is no inbound context
InboundContext == IF req.context.t = "map" THEN req.context.v ELSE <<>>

\* C20: the outbound context is the inbound context, except after a
\* successful write to a context. target, where it is the inbound context
\* with the target path set to the query result as it came, every other key
\* at every level keeping its value.
C20_ContextFrame ==
    ContextPreserved =>
        IF WroteToContext
        THEN /\ rsp.context.t = "map"
             /\ FrameKept(InboundContext, rsp.context.v, TargetPath)
             /\ Lookup(rsp.context, TargetPath) = [found |-> TRUE, val |-> results]
        ELSE rsp.context = req.context

C20_Witness ==
    /\ WroteToContext
    /\ in.target = ContextAB
    /\ in.queryIntervalMinutes = Some(1)
    /\ req.context =
         Map(Put(Single(KeyO, Keep), KeyA, Map(Put(Single(KeyB, List(<<Rec>>)), KeyC, Keep))))
    /\ results = List(<<>>)
    /\ rsp.context =
         Map(Put(Single(KeyO, Keep), KeyA, Map(Put(Single(KeyB, List(<<>>)), KeyC, Keep))))

\* a failed write to a context. target leaves the context as it came
C20_FailedWriteKeepsContext ==
    /\ Finished /\ QueryExecuted /\ ContextTarget
    /\ HasMessage("failed to update context key")
    /\ rsp.context = req.context

\* the desired composite of the response bears the identity it should
IdentityHandedOn ==
    /\ rsp.desired.apiVersion = PropagatedDesired.apiVersion
    /\ rsp.desired.kind = PropagatedDesired.kind
    /\ rsp.desired.name = PropagatedDesired.name

\* C21 as stated: the status read and written by an invocation is the status
\* of the desired composite when that is present and not empty, and else the
\* status of the observed composite: it is what the response hands on, what a
\* write to a status target changes and what the has-data gate looks at; a
\* desired composite without kind gets apiVersion, kind and name of the
\* observed composite.
C21_WorkingStatusAndIdentity ==
    pc \notin {"idle", "propagateDesiredXR"} =>
        /\ IdentityHandedOn
        /\ IF Finished /\ Succeeded /\ StatusTarget
           THEN /\ rsp.desired.status.t = "map"
                /\ FrameKept(WorkingStatus, rsp.desired.status.v, TargetPath)
           ELSE rsp.desired.status = PropagatedDesired.status
        /\ (StatusTarget /\ SkippedWith("SkippedQuery")) => HasDataCond

\* the part of C21 that holds: the same, when one of the composites has a kind
C21_WorkingStatusWithKind ==
    (req.observed.kind # "" \/ req.desired.kind # "") => C21_WorkingStatusAndIdentity

\* a desired composite without kind whose identity came from the observed one
\* and whose status was handed on in place of the observed one's
C21_DesiredStatusPreferred ==
    /\ Finished
    /\ req.desired.kind = "" /\ req.observed.kind # ""
    /\ DOMAIN StatusOf(req.desired) # {}
    /\ DOMAIN StatusOf(req.observed) # {}
    /\ rsp.desired.kind = req.observed.kind
    /\ rsp.desired.name = req.observed.name
    /\ rsp.desired.status = req.desired.status

SetApplied == call.op = "SetNestedKey" /\ call.done

\* C22: a successful set of a value at a path of one to five segments,
\* followed by a get at the same path, returns that value, whether the path
\* was there before or not and whatever was stored at its end.
C22_SetThenGet ==
    (SetApplied /\ ~call.err) => call.got = [err |-> FALSE, val |-> call.value]

\* five segments, none of them in the tree before
C22_Witness ==
    /\ SetApplied /\ ~call.err
    /\ call.tree = <<>>
    /\ Len(call.segs) = 5
    /\ call.value = Rec
    /\ call.got.val = Rec

\* a value of another type was stored at the end of the path
C22_Overwritten ==
    /\ SetApplied /\ ~call.err
    /\ Lookup(Map(call.tree), call.segs) = [found |-> TRUE, val |-> List(<<Rec>>)]
    /\ call.value = Num(1)
    /\ call.got.val = Num(1)

\* some segment before the last names, in tree, a value that is no map
TypeConflict(tree, segs) ==
    \E i \in 1..(Len(segs) - 1) :
        /\ Lookup(tree, SubSeq(segs, 1, i)).found
        /\ Lookup(tree, SubSeq(segs, 1, i)).val.t # "map"

\* the invocation got an answer to write at a target the model knows
AnswerToWrite ==
    /\ Finished /\ QueryExecuted /\ ~RemoteFailed
    /\ StatusTarget \/ ContextTarget

WriteFailed ==
    IF StatusTarget THEN FatalNaming("cannot set status field", in.target)
    ELSE FatalNaming("failed to update context key", in.target)

\* C23: SetNestedKey fails exactly when a segment before the last names an
\* existing value that is no map, and then leaves the tree as it was; an
\* invocation whose write fails so ends with a fatal result, the status and
\* the context as propagated and no FunctionSuccess=true.
C23_TypeConflict ==
    /\ SetApplied =>
          /\ call.err <=> TypeConflict(Map(call.tree), call.segs)
          /\ call.err => call.root = call.tree
    /\ AnswerToWrite =>
          /\ WriteFailed <=> TypeConflict(TargetTree, TargetPath)
          /\ WriteFailed => HasResult("Fatal") /\ NothingWritten /\ NoSuccessTrue

\* a null on the way: the call failed and created nothing
C23_Witness ==
    /\ SetApplied /\ call.err
    /\ call.tree = Single(KeyA, Map(Single(KeyB, Null)))
    /\ Len(call.segs) = 5
    /\ call.root = call.tree

\* an invocation that could not write below a string
C23_FatalOnConflict ==
    /\ AnswerToWrite /\ WriteFailed
    /\ in.target = StatusAB
    /\ rsp.desired.status = Map(WorkingStatus)

ParseApplied == call.op = "ParseNestedKey" /\ call.done

\* key holds something a segment can be made of: a character that is neither
\* a dot nor a bracket, or a pair of brackets around characters that are no
\* brackets
Extractable(key) ==
    \/ \E i \in 1..Len(key) : key[i] \notin BareStop
    \/ \E i, j \in 1..Len(key) :
          /\ i + 1 < j
          /\ key[i] = "[" /\ key[j] = "]"
          /\ \A k \in (i + 1)..(j - 1) : key[k] \notin BracketChars

\* C24: the segments of a non-empty list, none of them empty or holding a
\* bracket, joined with dots, those that hold a dot in brackets, parse back to
\* the same list; a key of which no segment can be made, the empty one
\* included, is a parse failure, and no parse succeeds with an empty list.
C24_ParseOfJoin ==
    ParseApplied =>
        /\ call.segs # <<>> => ~call.err /\ call.parts = call.segs
        /\ call.err <=> ~Extractable(call.key)
        /\ ~call.err => call.parts # <<>>
        /\ call.key = <<>> => call.err

C24_Witness ==
    /\ ParseApplied /\ ~call.err
    /\ call.segs = <<KeyAB, <<".">>, KeyA>>
    /\ call.key = <<"[", "a", ".", "b", "]", ".", "[", ".", "]", ".", "a">>
    /\ call.parts = call.segs

\* the empty key was refused
C24_EmptyKeyRefused ==
    /\ ParseApplied /\ call.err
    /\ call.key = <<>>

\* the clock value that the timestamp written at clock value t stands for
StampAt(t) == (t \div TicksPerSecond) * TicksPerSecond

\* whole minutes between the timestamp of the last answered query and t
MinutesSinceLastQuery(t) ==
    (t - StampAt(queryTimes[Len(queryTimes)])) \div MinuteTicks

\* an invocation of a run of reconciliations with the flag not set
IntervalOnly ==
    /\ req.inputOK
    /\ req.input.queryIntervalMinutes # None
    /\ req.input.queryIntervalMinutes[1] > 0
    /\ req.input.skipQueryWhenTargetHasData = Some(FALSE)

OncePerInterval ==
    /\ pc = "executeQuery" =>
          \/ queryTimes = <<>>
          \/ MinutesSinceLastQuery(now) >= req.input.queryIntervalMinutes[1]
    /\ (Finished /\ ~QueryExecuted) =>
          /\ queryTimes # <<>>
          /\ MinutesSinceLastQuery(now) < req.input.queryIntervalMinutes[1]
          /\ SkippedWith("IntervalLimit")
          /\ rsp.desired.status = req.observed.status
    /\ \A i \in 1..(Len(queryTimes) - 1) :
          (StampAt(queryTimes[i + 1]) - StampAt(queryTimes[i])) \div MinuteTicks
              >= req.input.queryIntervalMinutes[1]

\* C25 as stated: over reconciliations of one status target with an interval
\* of N > 0 minutes and the flag not set, the answers being lists or maps, an
\* invocation makes the query exactly when there was none before or N minutes
\* have passed since the timestamp of the last one; a skipped invocation
\* hands on the status as it came, and the timestamps of two answered queries
\* are at least N minutes apart.
C25_OncePerInterval == IntervalOnly => OncePerInterval

\* the part of C25 that holds: the same for every N whose count of
\* nanoseconds fits an int64
C25_OncePerIntervalWithoutOverflow ==
    (IntervalOnly /\ req.input.queryIntervalMinutes[1] < FirstWrappingMinutes) =>
        OncePerInterval

\* a second query, one minute after the timestamp of the first
C25_SecondQueryAfterInterval ==
    /\ IntervalOnly /\ Finished /\ Succeeded
    /\ req.input.queryIntervalMinutes[1] = 1
    /\ Len(queryTimes) = 2
    /\ queryTimes[2] - StampAt(queryTimes[1]) = MinuteTicks

\* two queries within the same second, the interval being too long for int64
C25_QueriedAgainAtOnce ==
    /\ IntervalOnly /\ Finished /\ Succeeded
    /\ req.input.queryIntervalMinutes[1] = FirstWrappingMinutes
    /\ Len(queryTimes) = 2
    /\ queryTimes[2] = queryTimes[1]

(***************************************************************************)
(* C26: both gates on one status target                                    *)
(***************************************************************************)
BothGates ==
    /\ req.inputOK
    /\ req.input.queryIntervalMinutes # None
    /\ req.input.queryIntervalMinutes[1] > 0
    /\ req.input.skipQueryWhenTargetHasData = Some(TRUE)

\* the target of the request holds data as the invocation sees it
TargetHoldsData == BothGates /\ checkStatusTargetHasData(req, req.input)

SkipConditionCount ==
    Cardinality({ i \in 1..Len(rsp.conditions) : rsp.conditions[i].type = "FunctionSkip" })

WithinInterval ==
    queryTimes # <<>> /\ MinutesSinceLastQuery(now) < req.input.queryIntervalMinutes[1]

NoQueryOnData ==
    /\ remoteCalls = <<>>
    /\ pc \notin {"executeQuery", "processResults"}
    /\ Finished =>
        /\ SkipConditionCount = 1
        /\ IF WithinInterval THEN SkippedWith("IntervalLimit") ELSE SkippedWith("SkippedQuery")
        /\ rsp.desired.status = req.observed.status

\* C26: with skipQueryWhenTargetHasData true and a positive
\* queryIntervalMinutes on a status target, an invocation that sees data at
\* the target makes no query, during the interval and after it: it ends with
\* exactly one FunctionSkip condition, of reason IntervalLimit while the
\* interval since the last query lasts and of reason SkippedQuery afterwards.
C26_SkippedOnceDataIsThere == TargetHoldsData => NoQueryOnData

\* the same for the intervals whose nanosecond count fits an int64
C26_SkippedOnceDataWithoutOverflow ==
    (TargetHoldsData /\ req.input.queryIntervalMinutes[1] < FirstWrappingMinutes)
        => NoQueryOnData

\* an invocation past the interval, skipped for the data at the target
C26_SkippedAfterInterval ==
    /\ TargetHoldsData /\ Finished /\ ~WithinInterval
    /\ SkippedWith("SkippedQuery") /\ SkipConditionCount = 1

\* an invocation within the interval, skipped for the data at the target
C26_DataGateWithinInterval ==
    /\ TargetHoldsData /\ Finished /\ WithinInterval
    /\ SkippedWith("SkippedQuery") /\ ~SkippedWith("IntervalLimit")

\* no invocation carries more than one FunctionSkip condition
C26_AtMostOneSkipCondition == SkipConditionCount <= 1

(***************************************************************************)
(* C27: the fatal result and the success condition                         *)
(***************************************************************************)
HasSuccessTrue == \E i \in 1..Len(rsp.conditions) : rsp.conditions[i] = SuccessTrue

SkippedByGate == SkippedWith("IntervalLimit") \/ SkippedWith("SkippedQuery")

\* the remote query was answered and the answer, with or without a
\* lastQueryTime marker, is the value at the target path of the response
ResultWritten ==
    /\ QueryExecuted
    /\ ~RemoteFailed
    /\ TargetPath # <<>>
    /\ Lookup(ResponseTree, TargetPath).found
    /\ Written = results \/ Stamped(results, Written)

\* C27: no response carries a fatal result together with
\* FunctionSuccess=true, and a finished invocation carries
\* FunctionSuccess=true exactly when a gate skipped it or its query was
\* executed and the result written.
C27_SuccessWithoutFatal ==
    /\ ~(HasResult("Fatal") /\ HasSuccessTrue)
    /\ Finished => (HasSuccessTrue <=> (SkippedByGate \/ ResultWritten))

\* a finished invocation whose answered query could not be written
C27_Witness ==
    /\ Finished /\ QueryExecuted /\ ~RemoteFailed
    /\ HasResult("Fatal") /\ ~HasSuccessTrue

\* a finished invocation with FunctionSuccess=true after a skip
C27_SuccessAfterSkip == Finished /\ SkippedByGate /\ HasSuccessTrue

\* a finished invocation with FunctionSuccess=true after a write
C27_SuccessAfterWrite == Finished /\ ResultWritten /\ HasSuccessTrue

(***************************************************************************)
(* C28: the marker of a stored list                                        *)
(***************************************************************************)
IsMarker(e) == e.t = "map" /\ LastQueryTimeKey \in DOMAIN e.v

MarkerPositions(l) == { i \in 1..Len(l.v) : IsMarker(l.v[i]) }

\* a list whose only marker is its last element
OneMarkerLast(l) == l.t = "list" /\ Len(l.v) > 0 /\ MarkerPositions(l) = {Len(l.v)}

\* the answer is a list none of whose elements carries a lastQueryTime key
PlainListAnswer == results.t = "list" /\ MarkerPositions(results) = {}

\* what the composite of the request holds at the target
SeenAtTarget == Lookup(req.observed.status, <<KeyA>>)

\* C28: over the queries executed against one status target with a positive
\* interval, each answered by a list without lastQueryTime keys, the list
\* stored at the target holds exactly one marker, as its last element, after
\* every query, and so does the list each later invocation sees.
C28_OneMarker ==
    IntervalSet =>
        /\ (Finished /\ Succeeded /\ PlainListAnswer) => OneMarkerLast(Written)
        /\ (req.inputOK /\ SeenAtTarget.found /\ SeenAtTarget.val.t = "list")
                => OneMarkerLast(SeenAtTarget.val)

\* the second query against the target has been answered by a list and stored
C28_Witness ==
    /\ IntervalSet /\ Finished /\ Succeeded /\ PlainListAnswer
    /\ Len(queryTimes) = 2
    /\ SeenAtTarget.found /\ SeenAtTarget.val.t = "list"

(***************************************************************************)
(* C29: the order in which the reasons to stop are examined                *)
(***************************************************************************)
\* the stages of an invocation that found a reason to stop and reported it
Reports ==
    { s \in {"input", "credentials", "queryRef", "subscriptionsRef", "emptyQuery",
             "target", "skip", "remote", "write"} :
        CASE s = "input" -> HasMessage("cannot get Function input")
          [] s = "credentials" ->
                \/ HasMessage("failed to get azure-creds credentials")
                \/ HasMessage("cannot parse json credentials")
                \/ HasMessage("invalid credential format")
                \/ HasMessage("no Azure credentials provided")
          [] s = "queryRef" -> HasMessage("Unrecognized QueryRef field")
          [] s = "subscriptionsRef" -> HasMessage("Unrecognized SubscriptionsRef field")
          [] s = "emptyQuery" -> WarnedOfEmptyQuery
          [] s = "target" -> HasMessage("Unrecognized target field")
          [] s = "skip" -> ~NoSkipReported
          [] s = "remote" -> \E e \in RemoteErrors : HasMessage(e)
          [] s = "write" ->
                HasMessage("cannot set status field") \/ HasMessage("failed to update context key") }

\* the query once queryRef is resolved
ResolvedQuery ==
    IF QueryRefRecognised /\ RefersToString(req.input.queryRef[1])
    THEN Referred(req.input.queryRef[1]).val.v
    ELSE req.input.query

\* the reasons to stop that the request itself carries, in the order of the
\* list: 1 input, 2 credentials, 3 queryRef, 4 subscriptionsRef, 5 empty
\* query, 6 target
ReasonsToStop ==
    { n \in 1..6 :
        CASE n = 1 -> ~req.inputOK
          [] n = 2 -> req.creds \notin GoodCreds
          [] n = 3 -> ~RefPrefixOK(req.input.queryRef)
          [] n = 4 -> ~RefPrefixOK(req.input.subscriptionsRef)
          [] n = 5 -> Len(ResolvedQuery) = 0
          [] n = 6 -> TargetUnrecognised }

StageName(n) ==
    <<"input", "credentials", "queryRef", "subscriptionsRef", "emptyQuery", "target">>[n]

FirstReason == CHOOSE n \in ReasonsToStop : \A m \in ReasonsToStop : n <= m

\* the write of the answer cannot succeed: the path is empty or runs through
\* a value that is no map
WriteRefused ==
    LET p == ParseNestedKey(TrimPrefix(req.input.target,
                                       IF HasPrefix(req.input.target, StatusPrefix)
                                       THEN StatusPrefix ELSE ContextPrefix))
        tree == IF HasPrefix(req.input.target, StatusPrefix) THEN Map(WorkingStatus)
                ELSE IF req.context.t = "map" THEN req.context ELSE EmptyMap
    IN  p.err \/ TypeConflict(tree, p.parts)

FirstReasonOnly ==
    IF ReasonsToStop # {}
    THEN /\ Reports = {StageName(FirstReason)}
         /\ ~QueryExecuted
         /\ NothingWritten
         /\ NoSuccessTrue
    ELSE /\ Cardinality(Reports) <= 1
         /\ "skip" \in Reports => ~QueryExecuted /\ NothingWritten
         /\ RemoteFailed => Reports = {"remote"} /\ NothingWritten /\ NoSuccessTrue
         /\ (QueryExecuted /\ ~RemoteFailed /\ WriteRefused) =>
                Reports = {"write"} /\ NothingWritten /\ NoSuccessTrue

\* C29: a finished invocation reports the first reason to stop that holds, in
\* the order input, credentials, queryRef, subscriptionsRef, empty query,
\* target, skip gates, remote failure, write failure, and nothing of the
\* reasons after it: no query is made and nothing is written once one of the
\* first six holds, a skip makes no query, a failed query writes nothing.
C29_FirstReasonOnly == Finished => FirstReasonOnly

\* the same for the requests whose credential payload has a credentials entry
C29_FirstReasonOnlyWithPayload == (Finished /\ ~PayloadMissing) => FirstReasonOnly

\* several reasons hold and the first of them is the one reported
C29_SeveralReasons ==
    /\ Finished /\ ~PayloadMissing
    /\ Cardinality(ReasonsToStop) >= 3
    /\ FirstReason = 2
    /\ Reports = {"credentials"}

\* a failed query at a target that could not have been written either
C29_RemoteBeforeWrite == Finished /\ RemoteFailed /\ WriteRefused /\ Reports = {"remote"}

\* the payload has no credentials entry, a reference is unrecognised, and the
\* response reports nothing
C29_NothingReported ==
    /\ Finished /\ req.inputOK /\ PayloadMissing
    /\ ReasonsToStop # {2}
    /\ Reports = {}

(***************************************************************************)
(* C30: when the remote query is made                                      *)
(***************************************************************************)
TargetRecognised ==
    HasPrefix(req.input.target, StatusPrefix) \/ HasPrefix(req.input.target, ContextPrefix)

\* C30: an invocation makes the remote query at most once, and only when the
\* input was read, the credentials were obtained, both references have a
\* recognised prefix, the resolved query is not empty, the target starts with
\* status. or context. and no gate skipped the invocation; the query text it
\* passes is the resolved query.
C30_QueryOnlyWhenDue ==
    /\ Len(remoteCalls) <= 1
    /\ QueryExecuted =>
        /\ req.inputOK
        /\ req.creds \in GoodCreds
        /\ RefPrefixOK(req.input.queryRef)
        /\ RefPrefixOK(req.input.subscriptionsRef)
        /\ Len(ResolvedQuery) > 0
        /\ TargetRecognised
        /\ NoSkipReported
        /\ remoteCalls[1].query = ResolvedQuery

\* a query made with the text a queryRef resolved to, the skip flag set and
\* no data at the target
C30_Witness ==
    /\ QueryExecuted
    /\ QueryRefRecognised /\ ResolvedQuery # req.input.query
    /\ remoteCalls[1].query = ResolvedQuery

\* a query made after the has-data gate looked at the target and let it pass
C30_PastTheGate ==
    /\ QueryExecuted
    /\ req.input.skipQueryWhenTargetHasData = Some(TRUE)

====
